---- MODULE Spec2Model ----
(***************************************************************************)
(* Model of the rr.opt.mcts core: Infeasible ordering, Solution,           *)
(* SolutionTracker, Stats, Expansion, TreeNode and the Solver loop.        *)
(*                                                                         *)
(* A problem state is identified with the sequence of actions applied to   *)
(* the root state (its path).  Every action of every state is expanded at  *)
(* most once, so a tree node is identified with the path of its state.     *)
(***************************************************************************)
EXTENDS Integers, Sequences, FiniteSets, TLC

(***************************************************************************)
(* Bounds of the model.                                                    *)
(***************************************************************************)
MaxVal == 2
\* updates made on one tracker at unit level
MaxUpdates == 3
\* depth of the receiver of add_child at unit level
MaxDepth == 2
\* calls of run() on one solver
MaxRuns == 2
\* readings of time.clock() are 0..MaxTime
MaxTime == 2
\* start() calls on one clock between two resets at unit level
MaxStarts == 3

(***************************************************************************)
(* utils.py                                                                *)
(***************************************************************************)
\* float("inf"): larger than every number the model otherwise produces
INF == 1000
\* the UNDEFINED singleton, as the buffered action of an Expansion
UNDEFINED == 0
\* the UNDEFINED singleton, as the remaining-actions iterator of an Expansion
UNDEFINED_ITER == <<0>>
\* Python's None, for references to nodes and states (never a path, whose entries are >= 1)
NONE == <<0>>
\* Python's None, for cached_bound
NO_BOUND == -INF - 1
\* no exception pending
OK == "ok"

(***************************************************************************)
(* infeasible.py: a value is either a float (isInf = FALSE, x the number)  *)
(* or an Infeasible object (isInf = TRUE, x the violation).                *)
(***************************************************************************)
Real(r) == [isInf |-> FALSE, x |-> r]
Infeasible(v) == [isInf |-> TRUE, x |-> v]

\* Infeasible.__lt__(self, obj)
Infeasible__lt__(self, obj) == obj.isInf /\ self.x < obj.x
\* a __gt__ that, as __lt__, only holds between Infeasible objects
Infeasible__gt__AmongInfeasibles(self, obj) == obj.isInf /\ self.x > obj.x
\* Infeasible.__gt__(self, obj)
Infeasible__gt__(self, obj) == ~obj.isInf \/ self.x > obj.x
\* a __le__ that is strict
Infeasible__le__Strict(self, obj) == obj.isInf /\ self.x < obj.x
\* Infeasible.__le__(self, obj)
Infeasible__le__(self, obj) == obj.isInf /\ self.x <= obj.x
\* Infeasible.__ge__(self, obj)
Infeasible__ge__(self, obj) == ~obj.isInf \/ self.x >= obj.x
\* Infeasible.__eq__(self, obj)
Infeasible__eq__(self, obj) == obj.isInf /\ self.x = obj.x
\* Infeasible.__ne__(self, obj)
Infeasible__ne__(self, obj) == ~obj.isInf \/ self.x # obj.x

\* Python's  a < b : the left operand's method, or when the left operand is a
\* float and the right one is not, the right operand's reflected method
PyLt(a, b) ==
    IF a.isInf THEN Infeasible__lt__(a, b)
    ELSE IF b.isInf THEN Infeasible__gt__(b, a)
    ELSE a.x < b.x
\* Python's  a > b
PyGt(a, b) ==
    IF a.isInf THEN Infeasible__gt__(a, b)
    ELSE IF b.isInf THEN Infeasible__lt__(b, a)
    ELSE a.x > b.x
\* Python's  a <= b
PyLe(a, b) ==
    IF a.isInf THEN Infeasible__le__(a, b)
    ELSE IF b.isInf THEN Infeasible__ge__(b, a)
    ELSE a.x <= b.x
\* Python's  a >= b
PyGe(a, b) ==
    IF a.isInf THEN Infeasible__ge__(a, b)
    ELSE IF b.isInf THEN Infeasible__le__(b, a)
    ELSE a.x >= b.x
\* Python's  a == b
PyEq(a, b) ==
    IF a.isInf THEN Infeasible__eq__(a, b)
    ELSE IF b.isInf THEN Infeasible__eq__(b, a)
    ELSE a.x = b.x
\* Python's  a != b
PyNe(a, b) ==
    IF a.isInf THEN Infeasible__ne__(a, b)
    ELSE IF b.isInf THEN Infeasible__ne__(b, a)
    ELSE a.x # b.x

(***************************************************************************)
(* solution.py                                                             *)
(***************************************************************************)
\* A Solution object.  id is the object's identity: the path of the node the
\* solution was produced for (each node produces one solution), or one of
\* the two marks below for the class-level sentinels.
Solution(id, value) == [id |-> id, value |-> value]
is_feas(sol) == ~sol.value.isInf
INIT_BEST == Solution(<<-1>>, Infeasible(INF))
INIT_WORST == Solution(<<-2>>, Real(-INF))

\* Python's None, where a Solution is expected
NO_SOLUTION == Solution(NONE, Real(0))

\* SolutionTracker.__init__
NewTracker == [count |-> 0, best |-> INIT_BEST, worst |-> INIT_WORST]

\* SolutionTracker.extrema
extrema(t) == <<t.best, t.worst>>

\* SolutionTracker.update, without the observer calls (made by the callers
\* below in the order of the handler lists)
TrackerUpdate(t, sol) ==
    [count |-> t.count + 1,
     best  |-> IF PyLt(sol.value, t.best.value) THEN sol ELSE t.best,
     worst |-> IF PyGt(sol.value, t.worst.value) THEN sol ELSE t.worst]

\* the loop of SolutionTracker.refresh over sols[i..], from (nb, nw)
RECURSIVE RefreshScan(_, _, _, _)
RefreshScan(sols, i, nb, nw) ==
    IF i > Len(sols) THEN <<nb, nw>>
    ELSE RefreshScan(sols, i + 1,
                     IF PyLt(sols[i].value, nb.value) THEN sols[i] ELSE nb,
                     IF PyGt(sols[i].value, nw.value) THEN sols[i] ELSE nw)

\* a refresh that scans from the tracker's current extrema, not from the
\* sentinels
TrackerRefresh_FromCurrent(t, sols) ==
    LET r == RefreshScan(sols, 1, t.best, t.worst)
    IN  [t |-> [count |-> t.count, best |-> r[1], worst |-> r[2]],
         changed |-> (r[1].id # t.best.id \/ r[2].id # t.worst.id)]

\* a refresh that reports a change whenever it finds a solution
TrackerRefresh_ChangedIfAny(t, sols) ==
    LET r == RefreshScan(sols, 1, INIT_BEST, INIT_WORST)
    IN  [t |-> [count |-> t.count, best |-> r[1], worst |-> r[2]],
         changed |-> (r[1].id # INIT_BEST.id \/ r[2].id # INIT_WORST.id)]

\* SolutionTracker.refresh: the new tracker and the returned boolean
TrackerRefresh(t, sols) ==
    LET r == RefreshScan(sols, 1, INIT_BEST, INIT_WORST)
    IN  [t |-> [count |-> t.count, best |-> r[1], worst |-> r[2]],
         changed |-> (r[1].id # t.best.id \/ r[2].id # t.worst.id)]

(***************************************************************************)
(* State of the model.                                                     *)
(***************************************************************************)
VARIABLES
    prob,       \* the user's State class: its action counts, solution values, bounds, overridden methods
    params,     \* the TreeNode subclass parameters and the Solver constructor's pruning argument
    nodes,      \* the TreeNode objects, by path
    sv,         \* the Solver object: its three trackers, pruning, iters
    cpu,        \* the Solver's Clock
    pc,         \* position of Solver.run
    loc,        \* local variables of Solver.run and of the suspended expand() generator
    err,        \* the exception that left Solver.run, or OK
    result,     \* what Solver.run returned: NO_SOLUTION or a Solution
    is_opt,     \* ids of the Solution objects whose is_opt flag is set
    hist,       \* history: what reached the root's trackers, the runs made
    arg,        \* unit level: the operands, or the object the methods are called on
    ret         \* unit level: what the last call returned or raised

vars == <<prob, params, nodes, sv, cpu, pc, loc, err, result, is_opt, hist, arg, ret>>

(***************************************************************************)
(* state.py: the State contract, for the problem held in prob.             *)
(***************************************************************************)
\* State.actions(): the actions 1..kids, in order
actions(s) == [i \in 1..prob.kids[s] |-> i]
\* State.apply(action) on a copy of s
apply(s, a) == Append(s, a)
\* State.is_terminal(): the base class returns False
is_terminal(s) == IF prob.hasTerminal THEN prob.kids[s] = 0 ELSE FALSE
\* State.solution()
solution(s) == Solution(s, prob.val[s])
\* the states State.simulate() can stop in: a random descent from s until
\* is_terminal() or no action is left
RECURSIVE Descents(_)
Descents(s) ==
    IF prob.kids[s] = 0 THEN {s}
    ELSE UNION {Descents(apply(s, a)) : a \in 1..prob.kids[s]}

(***************************************************************************)
(* expansion.py                                                            *)
(***************************************************************************)
\* Expansion.__init__
NewExpansion(state) ==
    [state |-> state, next_action |-> UNDEFINED, remaining_actions |-> UNDEFINED_ITER,
     is_started |-> FALSE, is_finished |-> FALSE]

\* an _advance that drops an action when two or more remain
Advance_SkipOne(e) ==
    IF Len(e.remaining_actions) > 1
    THEN [e EXCEPT !.next_action = e.remaining_actions[2],
                   !.remaining_actions = Tail(Tail(e.remaining_actions))]
    ELSE IF Len(e.remaining_actions) > 0
    THEN [e EXCEPT !.next_action = Head(e.remaining_actions),
                   !.remaining_actions = Tail(e.remaining_actions)]
    ELSE [e EXCEPT !.next_action = UNDEFINED,
                   !.remaining_actions = UNDEFINED_ITER,
                   !.is_finished = TRUE]

\* Expansion._advance
Advance(e) ==
    IF Len(e.remaining_actions) > 0
    THEN [e EXCEPT !.next_action = Head(e.remaining_actions),
                   !.remaining_actions = Tail(e.remaining_actions)]
    ELSE [e EXCEPT !.next_action = UNDEFINED,
                   !.remaining_actions = UNDEFINED_ITER,
                   !.is_finished = TRUE]

\* Expansion.start: the expansion afterwards (the caller checks is_started)
ExpansionStart(e) ==
    Advance([e EXCEPT !.remaining_actions = actions(e.state), !.is_started = TRUE])

\* Expansion.next: the (action, child state) pair returned
ExpansionNextPair(e) == <<e.next_action, apply(e.state, e.next_action)>>
\* Expansion.next: the expansion afterwards
ExpansionNext(e) == Advance(e)

\* what a call on an Expansion e0 gave: the expansion afterwards, the
\* exception raised or OK, and the value returned
Outcome(call, e0, e, raised, value) ==
    [call |-> call, before |-> e0, e |-> e, raised |-> raised, value |-> value]

\* Expansion.start, as called from outside
start(e) ==
    IF e.is_started
    THEN Outcome("start", e, e, "ValueError: multiple attempts to start node expansion", <<>>)
    ELSE Outcome("start", e, ExpansionStart(e), OK, <<>>)

\* a next() that does not look at is_finished
next_NoFinishedTest(e) ==
    IF ~e.is_started
    THEN Outcome("next", e, e, "ValueError: node expansion is not yet started", <<>>)
    ELSE Outcome("next", e, ExpansionNext(e), OK, ExpansionNextPair(e))

\* Expansion.next, as called from outside
next(e) ==
    IF ~e.is_started
    THEN Outcome("next", e, e, "ValueError: node expansion is not yet started", <<>>)
    ELSE IF e.is_finished
    THEN Outcome("next", e, e, "ValueError: node expansion is already finished", <<>>)
    ELSE Outcome("next", e, ExpansionNext(e), OK, ExpansionNextPair(e))

(***************************************************************************)
(* tree.py: NaryTreeNode and TreeNode.  A world w is the heap of nodes,    *)
(* the solver object and the pending exception; every operation maps a     *)
(* world to the world after it, and does nothing once an exception is      *)
(* pending.                                                                *)
(***************************************************************************)
Raise(w, e) == [w EXCEPT !.err = e]

\* Stats.__init__
NewStats == [sols |-> <<>>, feas |-> NewTracker, infeas |-> NewTracker, overall |-> NewTracker]

\* TreeNode.__init__ (with NaryTreeNode.__init__); bound_evals is history:
\* the number of times state.bound() was evaluated for the node
NewNode(id, state, action) ==
    [children |-> <<>>, ancestors |-> <<>>, parent |-> NONE, root |-> id, depth |-> 0,
     state |-> state, action |-> action, stats |-> NewStats,
     expansion |-> NewExpansion(state), cached_bound |-> NO_BOUND,
     bound_evals |-> 0]

\* membership and removal of the first occurrence in a list (list.remove)
InSeq(x, s) == \E i \in 1..Len(s) : s[i] = x
RECURSIVE ListRemove(_, _)
ListRemove(s, x) ==
    IF Len(s) = 0 THEN s
    ELSE IF Head(s) = x THEN Tail(s)
    ELSE <<Head(s)>> \o ListRemove(Tail(s), x)

\* an add_child that gives the child its parent alone as ancestors
add_child_ParentOnly(w, self, node) ==
    IF w.err # OK THEN w
    ELSE IF Len(w.nodes[node].ancestors) > 0 \/ Len(w.nodes[node].children) > 0
    THEN Raise(w, "ValueError: argument node cannot have ancestors or children")
    ELSE [w EXCEPT !.nodes[self].children = Append(@, node),
                   !.nodes[node].ancestors = <<self>>,
                   !.nodes[node].parent = self,
                   !.nodes[node].root = w.nodes[self].root,
                   !.nodes[node].depth = w.nodes[self].depth + 1]

\* an add_child that takes the parent for the root of the child
add_child_RootIsParent(w, self, node) ==
    IF w.err # OK THEN w
    ELSE IF Len(w.nodes[node].ancestors) > 0 \/ Len(w.nodes[node].children) > 0
    THEN Raise(w, "ValueError: argument node cannot have ancestors or children")
    ELSE [w EXCEPT !.nodes[self].children = Append(@, node),
                   !.nodes[node].ancestors = <<self>> \o w.nodes[self].ancestors,
                   !.nodes[node].parent = self,
                   !.nodes[node].root = self,
                   !.nodes[node].depth = w.nodes[self].depth + 1]

\* an add_child that only refuses a node with children
add_child_ChildrenTestOnly(w, self, node) ==
    IF w.err # OK THEN w
    ELSE IF Len(w.nodes[node].children) > 0
    THEN Raise(w, "ValueError: argument node cannot have ancestors or children")
    ELSE [w EXCEPT !.nodes[self].children = Append(@, node),
                   !.nodes[node].ancestors = <<self>> \o w.nodes[self].ancestors,
                   !.nodes[node].parent = self,
                   !.nodes[node].root = w.nodes[self].root,
                   !.nodes[node].depth = w.nodes[self].depth + 1]

\* NaryTreeNode.add_child
add_child(w, self, node) ==
    IF w.err # OK THEN w
    ELSE IF Len(w.nodes[node].ancestors) > 0 \/ Len(w.nodes[node].children) > 0
    THEN Raise(w, "ValueError: argument node cannot have ancestors or children")
    ELSE [w EXCEPT !.nodes[self].children = Append(@, node),
                   !.nodes[node].ancestors = <<self>> \o w.nodes[self].ancestors,
                   !.nodes[node].parent = self,
                   !.nodes[node].root = w.nodes[self].root,
                   !.nodes[node].depth = w.nodes[self].depth + 1]

\* NaryTreeNode.remove_child
remove_child(w, self, node) ==
    IF w.err # OK THEN w
    ELSE IF w.nodes[node].parent # self
    THEN Raise(w, "ValueError: argument node has a different parent")
    ELSE IF ~InSeq(node, w.nodes[self].children)
    THEN Raise(w, "ValueError: list.remove(x): x not in list")
    ELSE [w EXCEPT !.nodes[self].children = ListRemove(@, node),
                   !.nodes[node].ancestors = <<>>,
                   !.nodes[node].parent = NONE,
                   !.nodes[node].root = node,
                   !.nodes[node].depth = 0]

\* NaryTreeNode.iter_preorder, as the set of nodes visited
RECURSIVE Subtree(_, _)
Subtree(h, n) ==
    {n} \cup UNION {Subtree(h, h[n].children[i]) : i \in 1..Len(h[n].children)}

\* NaryTreeNode.tree_size
tree_size(h, n) == Cardinality(Subtree(h, n))

\* TreeNode.is_exhausted
is_exhausted(h, n) == h[n].expansion.is_finished /\ Len(h[n].children) = 0

\* a bound that does not look at the cache
bound_NoCache(w, n) ==
    IF w.err # OK THEN w
    ELSE IF w.nodes[n].state = NONE
    THEN Raise(w, "AttributeError: 'NoneType' object has no attribute 'bound'")
    ELSE IF ~prob.hasBound
    THEN Raise(w, "NotImplementedError: State.bound")
    ELSE [w EXCEPT !.nodes[n].cached_bound = prob.bnd[w.nodes[n].state],
                   !.nodes[n].bound_evals = @ + 1]

\* TreeNode.bound: the world after the call (the value returned is then
\* the node's cached_bound)
bound(w, n) ==
    IF w.err # OK THEN w
    ELSE IF w.nodes[n].cached_bound # NO_BOUND THEN [w EXCEPT !.h.bound_hit = TRUE]
    ELSE IF w.nodes[n].state = NONE
    THEN Raise(w, "AttributeError: 'NoneType' object has no attribute 'bound'")
    ELSE IF ~prob.hasBound
    THEN Raise(w, "NotImplementedError: State.bound")
    ELSE [w EXCEPT !.nodes[n].cached_bound = prob.bnd[w.nodes[n].state],
                   !.nodes[n].bound_evals = @ + 1]

(***************************************************************************)
(* stats.py                                                                *)
(***************************************************************************)
\* concatenation of f(children[i]) over a list of children
RECURSIVE GatherExtrema(_, _, _)
GatherExtrema(h, kids, cat) ==
    IF Len(kids) = 0 THEN <<>>
    ELSE extrema(h[Head(kids)].stats[cat]) \o GatherExtrema(h, Tail(kids), cat)

\* the members of a list that satisfy / do not satisfy is_feas, in order
RECURSIVE FeasOnly(_, _)
FeasOnly(sols, want) ==
    IF Len(sols) = 0 THEN <<>>
    ELSE (IF is_feas(Head(sols)) = want THEN <<Head(sols)>> ELSE <<>>)
         \o FeasOnly(Tail(sols), want)

\* the three lists Stats.refresh builds for node n
RefreshSols(h, n, cat) ==
    GatherExtrema(h, h[n].children, cat) \o
    (CASE cat = "feas" -> FeasOnly(h[n].stats.sols, TRUE)
       [] cat = "infeas" -> FeasOnly(h[n].stats.sols, FALSE)
       [] OTHER -> h[n].stats.sols)

\* Stats.refresh: what SolutionTracker.refresh gives for each of the three
\* trackers of node n
RefreshResults(h, n) ==
    [cat \in {"feas", "infeas", "overall"} |->
        TrackerRefresh(h[n].stats[cat], RefreshSols(h, n, cat))]

\* Stats.refresh: the stats afterwards
RefreshedStats(h, n) ==
    LET With(r) == [sols    |-> h[n].stats.sols,
                    feas    |-> r["feas"].t,
                    infeas  |-> r["infeas"].t,
                    overall |-> r["overall"].t]
    IN  With(RefreshResults(h, n))

\* Stats.refresh: the boolean returned (all three trackers are refreshed)
RefreshChanged(h, n) ==
    LET Changed(r) == \E cat \in {"feas", "infeas", "overall"} : r[cat].changed
    IN  Changed(RefreshResults(h, n))

\* Stats.refresh on node n: the world afterwards
refresh(w, n) ==
    IF w.err # OK THEN w
    ELSE [w EXCEPT !.nodes[n].stats = RefreshedStats(w.nodes, n)]

(***************************************************************************)
(* tree.py: TreeNode.delete and TreeNode.prune                             *)
(***************************************************************************)
\* first phase of delete(): the walk up the tree; yields <<node, parent, ok>>
\* where ok is FALSE when  assert parent.children[0] is node  failed
\* a walk that stays at the node delete() was called on
DeleteWalk_NoClimb(h, node, parent) == <<node, parent, TRUE>>

RECURSIVE DeleteWalk(_, _, _)
DeleteWalk(h, node, parent) ==
    IF parent # NONE /\ h[parent].expansion.is_finished /\ Len(h[parent].children) = 1
    THEN IF h[parent].children[1] # node
         THEN <<node, parent, FALSE>>
         ELSE DeleteWalk(h, parent, h[parent].parent)
    ELSE <<node, parent, TRUE>>

\* the six trackers' extrema are the class-level sentinels
AllSentinels(st) ==
    /\ st.feas.best.id = INIT_BEST.id /\ st.feas.worst.id = INIT_WORST.id
    /\ st.infeas.best.id = INIT_BEST.id /\ st.infeas.worst.id = INIT_WORST.id
    /\ st.overall.best.id = INIT_BEST.id /\ st.overall.worst.id = INIT_WORST.id

\* the bottom-up refresh loop of delete(), stopping after the first refresh
\* that reports no change
RECURSIVE RefreshUp(_, _)
RefreshUp(w, ancs) ==
    IF w.err # OK \/ Len(ancs) = 0 THEN w
    ELSE LET Go(changed, w1) == IF changed THEN RefreshUp(w1, Tail(ancs)) ELSE w1
         IN  Go(RefreshChanged(w.nodes, Head(ancs)), refresh(w, Head(ancs)))

\* the number of ancestors the refresh loop of delete() refreshes
RECURSIVE RefreshCount(_, _)
RefreshCount(w, ancs) ==
    IF w.err # OK \/ Len(ancs) = 0 THEN 0
    ELSE IF RefreshChanged(w.nodes, Head(ancs))
         THEN 1 + RefreshCount(refresh(w, Head(ancs)), Tail(ancs))
         ELSE 1

\* TreeNode.delete
DeleteNode(w, self) ==
    IF w.err # OK THEN w
    ELSE
    LET CheckRoot(node, w2) ==
            IF w2.err = OK /\ ~AllSentinels(w2.nodes[node].stats)
            THEN Raise(w2, "AssertionError: root stats are not the initial sentinels")
            ELSE w2
        CheckParent(parent, ancs, w1) ==
            IF w1.err = OK /\ is_exhausted(w1.nodes, parent)
            THEN Raise(w1, "AssertionError: not parent.is_exhausted")
            ELSE RefreshUp(w1, ancs)
        Branch(node, parent) ==
            IF parent = NONE
            THEN IF ~(node = w.nodes[self].root /\ Len(w.nodes[node].children) < 2)
                 THEN Raise(w, "AssertionError: node is self.root and len(node.children) < 2")
                 ELSE CheckRoot(node, refresh(IF Len(w.nodes[node].children) > 0
                                              THEN remove_child(w, node, w.nodes[node].children[1])
                                              ELSE w,
                                              node))
            ELSE CheckParent(parent, w.nodes[node].ancestors, remove_child(w, parent, node))
        Walked(walk) ==
            IF ~walk[3] THEN Raise(w, "AssertionError: parent.children[0] is node")
            ELSE Branch(walk[1], walk[2])
    IN  Walked(DeleteWalk(w.nodes, self, w.nodes[self].parent))

\* the extrema of node a are those a Stats.refresh() of a would compute
FreshExtrema(h, a) ==
    LET Same(r) == \A cat \in {"feas", "infeas", "overall"} :
                       /\ r[cat].t.best.value = h[a].stats[cat].best.value
                       /\ r[cat].t.worst.value = h[a].stats[cat].worst.value
    IN  Same(RefreshResults(h, a))

\* the nodes of the tree of the solver's root
Reachable(h) == Subtree(h, <<>>)

\* TreeNode.delete, with the history of what the call did: the nodes it cut
\* off, whether every ancestor left in the tree has fresh extrema, whether
\* the refresh loop stopped below the root, whether an ancestor below the
\* root was detached in place of the node, whether the walk reached the root
\* from below and what it left of the root
delete(w, self) ==
    IF w.err # OK THEN w
    ELSE
    LET Record(walk, w2) ==
            LET ancs   == w.nodes[walk[1]].ancestors
                left   == {ancs[i] : i \in 1..Len(ancs)} \cap Reachable(w2.nodes)
                atRoot == /\ walk[3] /\ walk[2] = NONE /\ walk[1] = <<>>
                          /\ Len(w.nodes[<<>>].children) < 2
                clean  == atRoot => /\ Len(w2.nodes[<<>>].children) = 0
                                    /\ AllSentinels(w2.nodes[<<>>].stats)
            IN  IF w2.err # OK
                THEN [w2 EXCEPT !.h.root_clean = @ /\ clean]
                ELSE [w2 EXCEPT
                        !.h.root_clean = @ /\ clean,
                        !.h.deleted = TRUE,
                        !.h.cascade = @ \/ (walk[1] # self /\ walk[2] # NONE),
                        !.h.del_cut = @ /\ (self = <<>> \/
                                            Subtree(w.nodes, self) \cap Reachable(w2.nodes) = {}),
                        !.h.del_fresh = @ /\ \A a \in left : FreshExtrema(w2.nodes, a),
                        !.h.del_short = @ \/ (walk[2] # NONE /\
                            RefreshCount(remove_child(w, walk[2], walk[1]), ancs) < Len(ancs)),
                        !.h.root_del = @ \/ (walk[2] = NONE /\ walk[1] = <<>> /\ self # <<>>)]
    IN  Record(DeleteWalk(w.nodes, self, w.nodes[self].parent), DeleteNode(w, self))

\* the loop of prune(): the stack is a list whose last element is popped
RECURSIVE PruneLoop(_, _, _)
PruneLoop(w, stack, cutoff) ==
    IF w.err # OK \/ Len(stack) = 0 THEN w
    ELSE LET Visit(node, rest, w1) ==
                 IF w1.err # OK THEN w1
                 ELSE IF w1.nodes[node].cached_bound >= cutoff
                 THEN PruneLoop(delete(w1, node), rest, cutoff)
                 ELSE PruneLoop(w1, rest \o w1.nodes[node].children, cutoff)
         IN  Visit(stack[Len(stack)], SubSeq(stack, 1, Len(stack) - 1),
                   bound(w, stack[Len(stack)]))

\* history: a step of the iteration under way is taken
Step(w, name) == [w EXCEPT !.h.steps = Append(@, name)]

\* history: what holds when prune() is called.  The solver prunes, the call
\* is made on the root, the best overall solution of the solver is the
\* feasible solution being backpropagated, the cutoff is its value, and the
\* feas and overall trackers of the origin and of all its ancestors, the
\* root among them, have been updated with it
PruneCalledInOrder(w, self, cutoff) ==
    LET sol    == w.h.bp.sol
        origin == w.h.bp.origin
        path   == {origin} \cup {w.nodes[origin].ancestors[i] :
                                    i \in 1..Len(w.nodes[origin].ancestors)}
    IN  /\ w.sv.pruning
        /\ self = <<>>
        /\ ~cutoff.isInf
        /\ w.sv.overall.best.id = sol.id
        /\ is_feas(sol)
        /\ cutoff = sol.value
        /\ <<>> \in path
        /\ \E i \in 1..Len(w.nodes[origin].stats.sols) :
               w.nodes[origin].stats.sols[i].id = sol.id
        /\ \A a \in path : {<<a, "feas">>, <<a, "overall">>} \subseteq w.h.seen

\* history: what a call self.prune(cutoff) that took the world from w to w2
\* has done.  It raised nothing, every node of the tree of self has a bound
\* less than the cutoff, and the tree is not larger than it was
PruneDone(w, w2, self, cutoff) ==
    /\ w2.err = OK
    /\ \A n \in Subtree(w2.nodes, self) : prob.bnd[n] < cutoff
    /\ tree_size(w2.nodes, self) <= tree_size(w.nodes, self)

\* TreeNode.prune
prune(w, self, cutoff) ==
    LET Called(ok) == Step([w EXCEPT !.h.pruned = TRUE, !.h.prune_ok = @ /\ ok], "prune")
        Returned(w2) == [w2 EXCEPT !.h.prune_done = @ /\ PruneDone(w, w2, self, cutoff.x)]
    IN  IF w.err # OK THEN w
        ELSE IF cutoff.isInf
        THEN Raise(Called(FALSE), "AssertionError: not isinstance(cutoff, Infeasible)")
        ELSE Returned(PruneLoop(Called(PruneCalledInOrder(w, self, cutoff)),
                                <<self>>, cutoff.x))

(***************************************************************************)
(* stats.py: the selection scores.  The scores are real numbers (a square  *)
(* root of a logarithm); the model keeps what decides the control flow:    *)
(* whether computing a score raises, and that the root's score is +INF.    *)
(* Which child has the highest score is left open.                         *)
(***************************************************************************)
\* the assertion  0.0 <= raw_exploit <= 1.0  for
\* raw_exploit = (z_worst - z_node) / (z_worst - z_best), z_best # z_worst,
\* in float arithmetic (inf and nan included)
RawExploitInRange(z_node, z_best, z_worst) ==
    IF z_worst \in {INF, -INF}
    THEN FALSE                                  \* nan, or an infinite quotient
    ELSE IF z_node \in {INF, -INF}
    THEN FALSE                                  \* an infinite quotient, or nan
    ELSE IF z_best \in {INF, -INF}
    THEN TRUE                                   \* finite / inf = +-0.0
    ELSE IF z_worst > z_best
    THEN z_best <= z_node /\ z_node <= z_worst
    ELSE z_worst <= z_node /\ z_node <= z_best

\* Stats.opt_exploitation_score: the exception it raises, or OK
opt_exploitation_score(h, n) ==
    LET parent_node == h[n].parent IN
    IF parent_node = NONE THEN OK
    ELSE
    LET parent_stats == h[parent_node].stats
        best_sol == h[n].stats.overall.best
    IN  IF is_feas(best_sol)
        THEN LET z_best  == parent_stats.feas.best.value
                 z_worst == parent_stats.feas.worst.value
             IN  IF parent_stats.overall.count = 0 THEN "ZeroDivisionError"
                 ELSE IF z_best.isInf \/ z_worst.isInf
                 THEN IF z_best.isInf /\ Infeasible__eq__(z_best, z_worst) THEN OK
                      ELSE "TypeError: unsupported operand type(s) for -"
                 ELSE IF z_best.x = z_worst.x THEN OK
                 ELSE IF RawExploitInRange(best_sol.value.x, z_best.x, z_worst.x) THEN OK
                 ELSE "AssertionError: 0.0 <= raw_exploit <= 1.0"
        ELSE LET v_best  == parent_stats.infeas.best.value
                 v_worst == parent_stats.infeas.worst.value
             IN  IF ~v_best.isInf \/ ~v_worst.isInf
                 THEN "AttributeError: 'float' object has no attribute 'violation'"
                 ELSE IF v_best.x = v_worst.x THEN OK
                 ELSE IF RawExploitInRange(best_sol.value.x, v_best.x, v_worst.x) THEN OK
                 ELSE "AssertionError: 0.0 <= raw_exploit <= 1.0"

\* Stats.uct_exploration_score: the exception it raises, or OK
uct_exploration_score(h, n) ==
    LET parent_node == h[n].parent IN
    IF parent_node = NONE THEN OK
    ELSE IF h[parent_node].stats.overall.count = 0 THEN "ValueError: math domain error"
    ELSE IF h[n].stats.overall.count = 0 THEN "ZeroDivisionError"
    ELSE OK

\* TreeNode.selection_score: the exception it raises, or OK
selection_score(h, n) ==
    LET Plus(exploit) == IF exploit # OK THEN exploit ELSE uct_exploration_score(h, n)
    IN  Plus(opt_exploitation_score(h, n))

\* utils.max_elems(node.children, key=selection_score): the exception raised
\* by the first child whose score cannot be computed, or OK
RECURSIVE max_elems(_, _)
max_elems(h, kids) ==
    IF Len(kids) = 0 THEN OK
    ELSE LET Key(score) == IF score # OK THEN score ELSE max_elems(h, Tail(kids))
         IN  Key(selection_score(h, Head(kids)))

\* TreeNode.select from node: the set of possible results [node, err]
RECURSIVE select(_, _)
select(h, node) ==
    LET expansion == h[node].expansion
        allow_interleaving == params.SELECTION_INTERLEAVING
        kids == h[node].children
        self_cand == ~expansion.is_finished /\ allow_interleaving
        Best(max_err, node_err) ==
            IF max_err # OK
            THEN {[node |-> node, err |-> max_err]}
            ELSE IF self_cand /\ node_err # OK
            THEN {[node |-> node, err |-> node_err]}
            ELSE IF self_cand /\ h[node].parent = NONE
            THEN {[node |-> node, err |-> OK]}      \* node_score = INF > max_score
            ELSE (IF self_cand THEN {[node |-> node, err |-> OK]} ELSE {})
                 \cup UNION {select(h, kids[i]) : i \in 1..Len(kids)}
    IN  IF ~expansion.is_started \/ (~expansion.is_finished /\ ~allow_interleaving)
        THEN {[node |-> node, err |-> OK]}
        ELSE IF Len(kids) = 0
        THEN {[node |-> node, err |-> "ValueError: argument iterable must be non-empty"]}
        ELSE Best(max_elems(h, kids), selection_score(h, node))

(***************************************************************************)
(* solver.py: the trackers of the solver and their handlers                *)
(***************************************************************************)
\* the root node the solver was built on
ROOT == <<>>

\* Solver._on_best_overall_sol
on_best_overall_sol(w, old_sol, new_sol) ==
    IF w.err # OK THEN w
    ELSE IF w.sv.pruning /\ is_feas(new_sol)
    THEN prune(w, ROOT, new_sol.value)
    ELSE w

\* an update that takes every solution it is given for the best one
SolverUpdate_KeepLast(w, cat, sol) ==
    IF w.err # OK THEN w
    ELSE [w EXCEPT !.sv[cat].count = @ + 1,
                   !.sv[cat].best = sol,
                   !.sv[cat].worst = IF PyGt(sol.value, @.value) THEN sol ELSE @,
                   !.h.reached = IF cat = "overall" THEN @ \cup {sol} ELSE @]

\* SolutionTracker.update on one of the solver's trackers: on_best of
\* overall holds _on_best_overall_sol, the other handlers only log
SolverUpdate(w, cat, sol) ==
    IF w.err # OK THEN w
    ELSE
    LET old    == w.sv[cat]
        better == PyLt(sol.value, old.best.value)
        w1 == [w EXCEPT !.sv[cat].count = @ + 1,
                        !.sv[cat].best = IF better THEN sol ELSE @,
                        !.h.reached = IF cat = "overall" THEN @ \cup {sol} ELSE @]
        Worst(w2) ==
            IF w2.err # OK THEN w2
            ELSE [w2 EXCEPT !.sv[cat].worst = IF PyGt(sol.value, @.value) THEN sol ELSE @]
    IN  Worst(IF better /\ cat = "overall" THEN on_best_overall_sol(w1, old.best, sol) ELSE w1)

\* a root whose on_update handlers are wired for the overall tracker only
NodeTrackerUpdate_OverallOnly(w, n, cat, sol) ==
    IF w.err # OK THEN w
    ELSE LET w1 == [w EXCEPT !.nodes[n].stats[cat] = TrackerUpdate(@, sol)]
         IN  IF n = ROOT /\ cat = "overall" THEN SolverUpdate(w1, cat, sol) ELSE w1

\* SolutionTracker.update on a tracker of node n: on_update of the root's
\* trackers holds the update method of the solver's tracker
NodeTrackerUpdate(w, n, cat, sol) ==
    IF w.err # OK THEN w
    ELSE LET w1 == [w EXCEPT !.nodes[n].stats[cat] = TrackerUpdate(@, sol),
                             !.h.seen = @ \cup {<<n, cat>>},
                             !.h.order = IF cat = "overall" THEN Append(@, n) ELSE @]
         IN  IF n = ROOT THEN SolverUpdate(w1, cat, sol) ELSE w1

\* an update that counts in feas or infeas only the solutions of the node
StatsUpdate_OwnOnly(w, n, sol, origin) ==
    IF w.err # OK THEN w
    ELSE LET w1 == IF origin = n
                   THEN [w EXCEPT !.nodes[n].stats.sols = Append(@, sol)]
                   ELSE w
             w2 == IF origin = n
                   THEN NodeTrackerUpdate(w1, n, IF is_feas(sol) THEN "feas" ELSE "infeas", sol)
                   ELSE w1
         IN  NodeTrackerUpdate(w2, n, "overall", sol)

\* an update that takes the overall tracker first
StatsUpdate_OverallFirst(w, n, sol, origin) ==
    IF w.err # OK THEN w
    ELSE LET w1 == IF origin = n
                   THEN [w EXCEPT !.nodes[n].stats.sols = Append(@, sol)]
                   ELSE w
             w2 == NodeTrackerUpdate(w1, n, "overall", sol)
         IN  NodeTrackerUpdate(w2, n, IF is_feas(sol) THEN "feas" ELSE "infeas", sol)

\* an update that keeps the solution at every node it reaches
StatsUpdate_AppendAlways(w, n, sol, origin) ==
    IF w.err # OK THEN w
    ELSE LET w1 == [w EXCEPT !.nodes[n].stats.sols = Append(@, sol)]
             w2 == NodeTrackerUpdate(w1, n, IF is_feas(sol) THEN "feas" ELSE "infeas", sol)
         IN  NodeTrackerUpdate(w2, n, "overall", sol)

\* Stats.update
StatsUpdate(w, n, sol, origin) ==
    IF w.err # OK THEN w
    ELSE LET w1 == IF origin = n
                   THEN [w EXCEPT !.nodes[n].stats.sols = Append(@, sol)]
                   ELSE w
             w2 == NodeTrackerUpdate(w1, n, IF is_feas(sol) THEN "feas" ELSE "infeas", sol)
         IN  NodeTrackerUpdate(w2, n, "overall", sol)

\* a backpropagation that stops at the node it starts from
BackpropagateUp_Nowhere(w, ancs, sol, origin) == w

\* the loop of backpropagate over the ancestors
RECURSIVE BackpropagateUp(_, _, _, _)
BackpropagateUp(w, ancs, sol, origin) ==
    IF w.err # OK \/ Len(ancs) = 0 THEN w
    ELSE BackpropagateUp(StatsUpdate(w, Head(ancs), sol, origin), Tail(ancs), sol, origin)

\* no backpropagation is under way
NoBackpropagation == [origin |-> NONE, sol |-> NO_SOLUTION]

\* history: what a call self.backpropagate(sol) that took the world from w
\* to w2 has done.  The overall trackers were updated at self and then at its
\* ancestors, bottom-up; there the overall count and the count of the
\* category of sol went up by one and the other count stayed; sol was
\* appended to the solutions of self and of no other node; if no prune was
\* triggered, the stats of all other nodes are as they were
BackpropagateFrame(w, w2, self, sol) ==
    LET ancs  == w.nodes[self].ancestors
        path  == {self} \cup {ancs[i] : i \in 1..Len(ancs)}
        cat   == IF is_feas(sol) THEN "feas" ELSE "infeas"
        other == IF is_feas(sol) THEN "infeas" ELSE "feas"
        Was(n) == w.nodes[n].stats
        Is(n)  == w2.nodes[n].stats
    IN  /\ w2.h.order = <<self>> \o ancs
        /\ \A a \in path :
               /\ Is(a).overall.count = Was(a).overall.count + 1
               /\ Is(a)[cat].count = Was(a)[cat].count + 1
               /\ Is(a)[other].count = Was(a)[other].count
               /\ Is(a).sols = IF a = self THEN Append(Was(a).sols, sol) ELSE Was(a).sols
        /\ Len(w2.h.steps) = Len(w.h.steps) =>
               \A n \in DOMAIN w.nodes \ path : Is(n) = Was(n)

\* TreeNode.backpropagate; history: bp is the call under way, seen the
\* trackers it has updated so far and order the nodes it has reached
backpropagate(w, self, sol) ==
    IF w.err # OK THEN w
    ELSE LET Up(w1) == IF w1.err # OK THEN w1
                       ELSE BackpropagateUp(w1, w1.nodes[self].ancestors, sol, self)
             Over(w2) == [w2 EXCEPT !.h.bp = NoBackpropagation, !.h.seen = {},
                                    !.h.order = <<>>,
                                    !.h.bp_plain = @ \/ (w2.err = OK /\
                                                         Len(w2.h.steps) = Len(w.h.steps)),
                                    !.h.bp_frame = @ /\ (w2.err # OK \/
                                        BackpropagateFrame(w, w2, self, sol))]
         IN  Over(Up(StatsUpdate([w EXCEPT !.h.bp = [origin |-> self, sol |-> sol],
                                           !.h.seen = {}, !.h.order = <<>>],
                                 self, sol, self)))

\* TreeNode.expansion_finished
expansion_finished(w, self) ==
    LET w1 == bound(w, self)
    IN  IF w1.err # OK THEN w1 ELSE [w1 EXCEPT !.nodes[self].state = NONE]

(***************************************************************************)
(* tree.py: TreeNode.expand, a generator.  ExpandLoop runs it from the     *)
(* test of its while loop up to the next yield or to its end, and gives    *)
(* the world afterwards, the child yielded (NONE at the end) and count.    *)
(***************************************************************************)
\* history: the (action, child state) pairs the expansion of node n gave
MadeBy(h, n) == IF n \in DOMAIN h.made THEN h.made[n] ELSE <<>>

\* history: the call of expand() under way links the child it has created,
\* under the cutoff it read
Linked(w, child, cutoff) ==
    [w EXCEPT !.h.linked = @ + 1,
              !.h.link_ok = @ /\ ((w.sv.pruning /\ ~cutoff.isInf) => prob.bnd[child] < cutoff.x)]

\* history: the call of expand() under way drops the child it has created
Dropped(w, child, cutoff) ==
    [w EXCEPT !.h.dropped = @ \cup {child},
              !.h.drop_ok = @ /\ w.sv.pruning /\ ~cutoff.isInf /\ prob.bnd[child] >= cutoff.x]

\* a loop in which a dropped child does not count toward the limit
RECURSIVE ExpandLoop_DropUncounted(_, _, _, _)
ExpandLoop_DropUncounted(w, self, count, rso) ==
    IF w.err # OK THEN [w |-> w, child |-> NONE, count |-> count]
    ELSE IF count < params.EXPANSION_LIMIT /\ ~w.nodes[self].expansion.is_finished
    THEN LET Cutoff(w1) == w1.nodes[rso].stats.overall.best.value
             Bounded(child, w2) ==
                 IF w2.err # OK THEN [w |-> w2, child |-> NONE, count |-> count]
                 ELSE IF w2.nodes[child].cached_bound < Cutoff(w2).x
                 THEN [w |-> add_child(Linked(w2, child, Cutoff(w2)), self, child),
                       child |-> child, count |-> count]
                 ELSE ExpandLoop_DropUncounted(Dropped(w2, child, Cutoff(w2)), self, count, rso)
             Created(child, w1) ==
                 IF ~w.sv.pruning \/ Cutoff(w1).isInf
                 THEN [w |-> add_child(Linked(w1, child, Cutoff(w1)), self, child),
                       child |-> child, count |-> count]
                 ELSE Bounded(child, bound(w1, child))
             Next_(pair) ==
                 Created(pair[2],
                         [w EXCEPT !.nodes = (pair[2] :> NewNode(pair[2], pair[2], pair[1])) @@
                                             [@ EXCEPT ![self].expansion = ExpansionNext(@)],
                                   !.h.made = (self :> Append(MadeBy(w.h, self), pair)) @@ @,
                                   !.h.tried = @ + 1])
         IN  Next_(ExpansionNextPair(w.nodes[self].expansion))
    ELSE IF w.nodes[self].expansion.is_finished
    THEN [w |-> IF Len(w.nodes[self].children) = 0
                THEN delete(w, self)
                ELSE expansion_finished(w, self),
          child |-> NONE, count |-> count]
    ELSE [w |-> w, child |-> NONE, count |-> count]

\* the while loop of expand() from the test of its condition on, count
\* children having been counted, up to the next yield or to the end of the
\* generator; rso is the node whose stats.overall the generator read as
\* root_stats_overall when it started
RECURSIVE ExpandLoop(_, _, _, _)
ExpandLoop(w, self, count, rso) ==
    IF w.err # OK THEN [w |-> w, child |-> NONE, count |-> count]
    ELSE IF count < params.EXPANSION_LIMIT /\ ~w.nodes[self].expansion.is_finished
    THEN LET Cutoff(w1) == w1.nodes[rso].stats.overall.best.value
             Bounded(child, w2) ==
                 IF w2.err # OK THEN [w |-> w2, child |-> NONE, count |-> count]
                 ELSE IF w2.nodes[child].cached_bound < Cutoff(w2).x
                 THEN [w |-> add_child(Linked(w2, child, Cutoff(w2)), self, child),
                       child |-> child, count |-> count]
                 ELSE ExpandLoop(Dropped(w2, child, Cutoff(w2)), self, count + 1, rso)
             Created(child, w1) ==
                 IF ~w.sv.pruning \/ Cutoff(w1).isInf
                 THEN [w |-> add_child(Linked(w1, child, Cutoff(w1)), self, child),
                       child |-> child, count |-> count]
                 ELSE Bounded(child, bound(w1, child))
             Next_(pair) ==
                 Created(pair[2],
                         [w EXCEPT !.nodes = (pair[2] :> NewNode(pair[2], pair[2], pair[1])) @@
                                             [@ EXCEPT ![self].expansion = ExpansionNext(@)],
                                   !.h.made = (self :> Append(MadeBy(w.h, self), pair)) @@ @,
                                   !.h.tried = @ + 1])
         IN  Next_(ExpansionNextPair(w.nodes[self].expansion))
    ELSE IF w.nodes[self].expansion.is_finished
    THEN [w |-> IF Len(w.nodes[self].children) = 0
                THEN delete(w, self)
                ELSE expansion_finished(w, self),
          child |-> NONE, count |-> count]
    ELSE [w |-> w, child |-> NONE, count |-> count]

\* the start of the generator, up to its while loop: the world afterwards
ExpandBegin(w, self) ==
    IF w.nodes[self].expansion.is_started THEN w
    ELSE IF Len(w.nodes[self].children) # 0
    THEN Raise(w, "AssertionError: len(self.children) == 0")
    ELSE [w EXCEPT !.nodes[self].expansion = ExpansionStart(@)]

(***************************************************************************)
(* clock.py                                                                *)
(***************************************************************************)
\* Python's None, for _start (the readings of time.clock() are >= 0)
NO_TIME == 0 - 1
\* Clock.__init__ ; now is the reading of time.clock()
NewClock == [start |-> NO_TIME, elapsed |-> 0, tracks |-> 0, now |-> 0]
\* Clock.elapsed
elapsed(c) == IF c.tracks > 0 THEN c.elapsed + (c.now - c.start) ELSE c.elapsed
\* Clock.start
ClockStart(c) ==
    [c EXCEPT !.start = IF c.tracks = 0 THEN c.now ELSE @, !.tracks = @ + 1]
\* a stop that adds to the elapsed time at every level of nesting
ClockStop_EveryLevel(c) ==
    IF c.tracks > 0
    THEN [c EXCEPT !.tracks = @ - 1, !.elapsed = @ + (c.now - c.start),
                   !.start = IF c.tracks = 1 THEN NO_TIME ELSE @]
    ELSE c

\* Clock.reset: the clock afterwards and the exception raised, or OK
ClockReset(c, force) ==
    IF ~force /\ c.tracks > 0
    THEN [c |-> c, raised |-> "Exception: cannot reset; clock is currently active"]
    ELSE [c |-> [c EXCEPT !.start = NO_TIME, !.elapsed = 0, !.tracks = 0], raised |-> OK]

\* Clock.stop
ClockStop(c) ==
    IF c.tracks > 0
    THEN IF c.tracks = 1
         THEN [c EXCEPT !.tracks = 0, !.elapsed = @ + (c.now - c.start), !.start = NO_TIME]
         ELSE [c EXCEPT !.tracks = @ - 1]
    ELSE c

(***************************************************************************)
(* The problems explored: trees of states of two shapes, whose leaves      *)
(* carry any solution value of Values, with a lower bound that is the      *)
(* least feasible value below the state minus a slack.                     *)
(***************************************************************************)
\* number of actions of each state: a full binary tree of depth two
ShapeFull ==
    (<<>> :> 2) @@ (<<1>> :> 2) @@ (<<2>> :> 2) @@
    (<<1, 1>> :> 0) @@ (<<1, 2>> :> 0) @@ (<<2, 1>> :> 0) @@ (<<2, 2>> :> 0)
\* two terminal states below the root
ShapeFlat == (<<>> :> 2) @@ (<<1>> :> 0) @@ (<<2>> :> 0)
\* three terminal states below the root
ShapeWide == (<<>> :> 3) @@ (<<1>> :> 0) @@ (<<2>> :> 0) @@ (<<3>> :> 0)
\* a terminal state beside a state with two terminal successors
ShapeSkew ==
    (<<>> :> 2) @@ (<<1>> :> 0) @@ (<<2>> :> 2) @@ (<<2, 1>> :> 0) @@ (<<2, 2>> :> 0)
Shapes == {ShapeFull, ShapeSkew}

Leaves(kids) == {s \in DOMAIN kids : kids[s] = 0}
\* solution values a terminal state may report
Values == {Real(v) : v \in 1..MaxVal} \cup {Infeasible(1), Infeasible(INF)}

IsPrefix(s, t) == Len(s) <= Len(t) /\ SubSeq(t, 1, Len(s)) = s
SetMin(S) == CHOOSE x \in S : \A y \in S : x <= y
\* the least feasible value among the terminal states below s, or MaxVal + 1
MinFeas(kids, val, s) ==
    LET fs == {val[l].x : l \in {l \in Leaves(kids) : IsPrefix(s, l) /\ ~val[l].isInf}}
    IN  IF fs = {} THEN MaxVal + 1 ELSE SetMin(fs)

Problem(kids, val, slack, hasBound, hasTerminal) ==
    [kids |-> kids, val |-> val,
     bnd |-> [s \in DOMAIN kids |-> MinFeas(kids, val, s) - slack[Len(s)]],
     hasBound |-> hasBound, hasTerminal |-> hasTerminal]

\* TreeNode.EXPANSION_LIMIT and TreeNode.SELECTION_INTERLEAVING
EXPANSION_LIMIT == 1
SELECTION_INTERLEAVING == FALSE

(***************************************************************************)
(* solver.py: Solver.__init__ and Solver.run                               *)
(***************************************************************************)
\* Solver.__init__: pruning is the constructor's argument, "auto" for None
NewSolver(pruning) ==
    [feas |-> NewTracker, infeas |-> NewTracker, overall |-> NewTracker,
     pruning |-> IF pruning = "auto" THEN prob.hasBound ELSE pruning = "on",
     iters |-> 0]

NoHistory ==
    [reached |-> {}, deleted |-> FALSE, del_cut |-> TRUE, del_fresh |-> TRUE,
     del_short |-> FALSE, cascade |-> FALSE, root_del |-> FALSE, root_clean |-> TRUE,
     del_detached |-> FALSE, made |-> <<>>, bound_hit |-> FALSE,
     bp |-> NoBackpropagation, seen |-> {}, order |-> <<>>, bp_frame |-> TRUE, prune_done |-> TRUE,
     bp_plain |-> FALSE, pruned |-> FALSE, prune_ok |-> TRUE,
     steps |-> <<>>, tried |-> 0, linked |-> 0, link_ok |-> TRUE, dropped |-> {},
     drop_ok |-> TRUE, runs |-> 0, k |-> INF, iters0 |-> 0, cancelled |-> FALSE]

\* no unit-level call is made
NoCall == <<>>

NoLocals ==
    [node |-> NONE, child |-> NONE, count |-> 0, rso |-> NONE,
     time_limit |-> INF, iter_limit |-> INF]

World == [nodes |-> nodes, sv |-> sv, err |-> OK, h |-> hist]

\* the bounds of the problem are the tight ones
TightBounds(p) == \A s \in DOMAIN p.kids : p.bnd[s] = MinFeas(p.kids, p.val, s)

\* without pruning the bounds decide nothing: one choice of them is explored
InitSolver(problems, paramsets) ==
    /\ prob \in problems
    /\ params \in paramsets
    /\ (params.pruning = "off" => TightBounds(prob))
    /\ nodes = (ROOT :> NewNode(ROOT, ROOT, UNDEFINED))
    /\ sv = NewSolver(params.pruning)
    /\ cpu = NewClock
    /\ pc = "init"
    /\ loc = NoLocals
    /\ err = OK
    /\ result = NO_SOLUTION
    /\ is_opt = {}
    /\ hist = NoHistory

\* a solver, and no unit-level call
InitWith(problems, paramsets) ==
    /\ InitSolver(problems, paramsets)
    /\ arg = NoCall
    /\ ret = NoCall

\* the nodes an iteration can still refer to: those of the solver's tree
Collect(h) == [n \in Reachable(h) |-> h[n]]

\* a run() whose cpu.stop() follows the loop inside the try block, where an
\* exception passes it by
Raised_NoFinally(w) ==
    /\ nodes' = w.nodes
    /\ sv' = w.sv
    /\ hist' = w.h
    /\ err' = w.err
    /\ pc' = "raised"
    /\ UNCHANGED <<prob, params, cpu, loc, result, is_opt, arg, ret>>

\* the exception leaves run(): the finally clause stops the clock
Raised(w) ==
    /\ nodes' = w.nodes
    /\ sv' = w.sv
    /\ hist' = w.h
    /\ err' = w.err
    /\ cpu' = ClockStop(cpu)
    /\ pc' = "raised"
    /\ UNCHANGED <<prob, params, loc, result, is_opt, arg, ret>>

\* the step went through: the world is stored and run() moves to position p
Stored(w, p, l) ==
    /\ nodes' = w.nodes
    /\ sv' = w.sv
    /\ hist' = w.h
    /\ pc' = p
    /\ loc' = l
    /\ UNCHANGED <<prob, params, cpu, err, result, is_opt, arg, ret>>

\* run(time_limit, iter_limit), the limits drawn from tls and ils, up to the
\* first test of the while loop; history: the number of calls of run(), the
\* iter_limit of this one and the iterations made before it
RunFrom(tls, ils) ==
    /\ \E tl \in tls, il \in ils :
          /\ loc' = [NoLocals EXCEPT !.time_limit = IF tl = INF THEN INF ELSE tl + elapsed(cpu),
                                     !.iter_limit = IF il = INF THEN INF ELSE il + sv.iters]
          /\ hist' = [hist EXCEPT !.runs = @ + 1, !.k = il, !.iters0 = sv.iters,
                                  !.cancelled = FALSE, !.steps = <<>>]
    /\ cpu' = ClockStart(cpu)
    /\ pc' = "loop"
    /\ UNCHANGED <<prob, params, nodes, sv, err, result, is_opt, arg, ret>>

\* run() without limits
Run ==
    /\ pc = "init"
    /\ RunFrom({INF}, {INF})

\* the condition of the while loop
LoopCondition ==
    /\ elapsed(cpu) < loc.time_limit
    /\ sv.iters < loc.iter_limit
    /\ ~is_exhausted(nodes, ROOT)

\* the while condition holds: node = root.select(), and the generator
\* node.expand(self.pruning) is created
Select ==
    /\ pc = "loop"
    /\ LoopCondition
    /\ \E r \in select(nodes, ROOT) :
          IF r.err # OK
          THEN Raised(Raise(Step(World, "select"), r.err))
          ELSE Stored(Step(World, "select"), "expand",
                      [loc EXCEPT !.node = r.node, !.rso = NONE])

\* the for loop asks the generator for its next child: the generator starts
\* or resumes, and runs to its next yield or to its end, which ends the
\* iteration
Expand ==
    /\ pc = "expand"
    /\ LET self  == loc.node
           fresh == loc.rso = NONE
           rso   == IF fresh THEN nodes[self].root ELSE loc.rso
           Yielded(r) ==
               IF r.w.err # OK THEN Raised(r.w)
               ELSE IF r.child # NONE
               THEN Stored(r.w, "body",
                           [loc EXCEPT !.child = r.child, !.count = r.count, !.rso = rso])
               ELSE Stored([r.w EXCEPT !.nodes = Collect(@), !.sv.iters = @ + 1,
                                       !.h.steps = <<>>], "loop",
                           [loc EXCEPT !.node = NONE, !.child = NONE, !.count = 0, !.rso = NONE])
           Resumed == Step(IF fresh
                           THEN [World EXCEPT !.h.tried = 0, !.h.linked = 0]
                           ELSE World,
                           "expand")
       IN  Yielded(ExpandLoop(IF fresh THEN ExpandBegin(Resumed, self) ELSE Resumed,
                              self, IF fresh THEN 0 ELSE loc.count + 1, rso))

\* the solutions the body of the for loop may backpropagate from the child:
\* the state's own if it is terminal, else the one child.simulate() yields
Simulated(child, state) ==
    IF is_terminal(state) THEN {solution(state)}
    ELSE {Solution(child, prob.val[leaf]) : leaf \in Descents(state)}

\* a body that deletes the terminal child before it backpropagates
ChildSteps_DeleteFirst(w, child, terminal, sol) ==
    LET Checked == IF terminal THEN Step(w, "terminal-check")
                   ELSE Step(Step(w, "terminal-check"), "simulate")
        w1 == IF terminal /\ Checked.nodes[child].root = ROOT
              THEN delete(Step(Checked, "delete"), child)
              ELSE Checked
    IN  backpropagate(Step(w1, "backpropagate"), child, sol)

\* what the body does with the child and the solution sol: is_terminal() is
\* asked, a child that is not terminal is simulated, sol is backpropagated
\* and a terminal child still in the tree of the root is deleted
ChildSteps(w, child, terminal, sol) ==
    LET Checked == IF terminal THEN Step(w, "terminal-check")
                   ELSE Step(Step(w, "terminal-check"), "simulate")
        w1 == backpropagate(Step(Checked, "backpropagate"), child, sol)
    IN  IF terminal /\ w1.err = OK /\ w1.nodes[child].root = ROOT
        THEN delete(Step([w1 EXCEPT !.h.del_detached =
                                       @ \/ child \notin Reachable(w1.nodes)],
                         "delete"),
                    child)
        ELSE w1

\* the body of the for loop, for the child the generator yielded
Body ==
    /\ pc = "body"
    /\ LET child == loc.child
           state == nodes[child].state
           Done_(w1) ==
               IF w1.err # OK THEN Raised(w1)
               ELSE IF ~is_terminal(state) /\ w1.nodes[child].stats.overall.count = 0
               THEN Raised(Raise(w1, "AssertionError: child.stats.overall.count > 0"))
               ELSE Stored(w1, "expand", loc)
       IN  IF nodes[child].parent # loc.node
           THEN Raised(Raise(World, "AssertionError: child.parent is node"))
           ELSE \E sol \in Simulated(child, state) :
                    Done_(ChildSteps(World, child, is_terminal(state), sol))

\* a test that forgets to look for a feasible solution
MarksOptimal_NoFeasTest(h, s) == is_exhausted(h, ROOT)

\* the test under which run() sets is_opt on the solution it returns
MarksOptimal(h, s) == is_exhausted(h, ROOT) /\ s.feas.count # 0

\* the loop is left: the clock is stopped and run() returns
Finalization ==
    /\ cpu' = ClockStop(cpu)
    /\ pc' = "returned"
    /\ IF sv.overall.count = 0
       THEN result' = NO_SOLUTION /\ is_opt' = is_opt
       ELSE /\ result' = sv.overall.best
            /\ is_opt' = IF MarksOptimal(nodes, sv)
                         THEN is_opt \cup {sv.overall.best.id} ELSE is_opt
    /\ UNCHANGED <<prob, params, nodes, sv, loc, err, arg, ret>>

\* the while condition fails
Return ==
    /\ pc = "loop"
    /\ ~LoopCondition
    /\ Finalization
    /\ UNCHANGED hist

Next == Run \/ Select \/ Expand \/ Body \/ Return

\* the problems and parameters of the main specification
Slacks == {<<0, 0, 0>>, <<1, 0, 0>>, <<1, 1, 1>>}
SlackAt(f) == [d \in 0..2 |-> f[d + 1]]
Problems ==
    UNION {{Problem(kids, val, SlackAt(sl), TRUE, TRUE) :
               val \in [Leaves(kids) -> Values], sl \in Slacks} : kids \in Shapes}
ParamSets ==
    [EXPANSION_LIMIT : {EXPANSION_LIMIT, INF},
     SELECTION_INTERLEAVING : {SELECTION_INTERLEAVING},
     pruning : {"auto", "off"}]

Init == InitWith(Problems, ParamSets)
Spec == Init /\ [][Next]_vars
\* the positions of run()
Positions == {"init", "loop", "expand", "body", "returned", "raised"}
\* run() moves on: every step of Next leaves the position it is taken from,
\* and one is enabled at every position but the two final ones
MovesOn == pc \notin {"returned", "raised"} /\ pc' \in Positions \ {pc}
\* run() is one sequential thread: until it is over, it takes its next step
FairSpec == Spec /\ WF_pc(MovesOn)

(***************************************************************************)
(* run() with limits, called more than once, with time passing and with    *)
(* KeyboardInterrupt.  The interrupt is taken between two steps of the     *)
(* loop, where the try statement of run() catches it.                      *)
(***************************************************************************)
TimeLimits == {1, INF}
IterLimits == {1, 2, INF}

ProblemsLimits ==
    UNION {{Problem(kids, val, SlackAt(<<0, 0, 0>>), TRUE, TRUE) :
               val \in [Leaves(kids) -> Values]} : kids \in {ShapeFlat, ShapeSkew}}

ParamSetsLimits ==
    [EXPANSION_LIMIT : {EXPANSION_LIMIT},
     SELECTION_INTERLEAVING : {SELECTION_INTERLEAVING},
     pruning : {"auto"}]

InitLimits == InitWith(ProblemsLimits, ParamSetsLimits)

\* run() is called, for the first time or after it has returned
RunLimited ==
    /\ pc \in {"init", "returned"}
    /\ hist.runs < MaxRuns
    /\ RunFrom(TimeLimits, IterLimits)

\* time.clock() moves on; run() reads it at the test of its while loop
Tick ==
    /\ pc = "loop"
    /\ cpu.now < MaxTime
    /\ cpu' = [cpu EXCEPT !.now = @ + 1]
    /\ UNCHANGED <<prob, params, nodes, sv, pc, loc, err, result, is_opt, hist, arg, ret>>

\* KeyboardInterrupt in the loop: the except clause logs it, the finally
\* clause stops the clock, and run() goes on after the try statement
Cancel ==
    /\ pc \in {"loop", "expand", "body"}
    /\ hist' = [hist EXCEPT !.cancelled = TRUE]
    /\ Finalization

NextLimits == RunLimited \/ Select \/ Expand \/ Body \/ Return \/ Tick \/ Cancel
SpecLimits == InitLimits /\ [][NextLimits]_vars

(***************************************************************************)
(* TreeNode subclasses with SELECTION_INTERLEAVING off and on.             *)
(***************************************************************************)
ParamSetsInterleaving ==
    [EXPANSION_LIMIT : {EXPANSION_LIMIT, INF},
     SELECTION_INTERLEAVING : BOOLEAN,
     pruning : {"auto", "off"}]

InitInterleaving == InitWith(ProblemsLimits, ParamSetsInterleaving)
SpecInterleaving == InitInterleaving /\ [][Next]_vars

(***************************************************************************)
(* State classes that do not override bound(), as NppState of the          *)
(* partition example; the Solver is built with pruning=None.               *)
(***************************************************************************)
ProblemsNoBound ==
    UNION {{Problem(kids, val, SlackAt(<<0, 0, 0>>), FALSE, ht) :
               val \in [Leaves(kids) -> Values], ht \in BOOLEAN} :
           kids \in {ShapeFlat, ShapeSkew}}
ParamSetsAuto ==
    [EXPANSION_LIMIT : {EXPANSION_LIMIT, INF},
     SELECTION_INTERLEAVING : {SELECTION_INTERLEAVING},
     pruning : {"auto"}]

InitNoBound == InitWith(ProblemsNoBound, ParamSetsAuto)
SpecNoBound == InitNoBound /\ [][Next]_vars

(***************************************************************************)
(* Unit level: the methods of one class are called on operands or on an    *)
(* object held in arg, and ret holds the outcome; a solver stands by,      *)
(* untouched.                                                              *)
(***************************************************************************)
InitUnit ==
    InitSolver({Problem(ShapeFlat, [l \in Leaves(ShapeFlat) |-> Real(1)],
                        SlackAt(<<0, 0, 0>>), TRUE, TRUE)},
               {[EXPANSION_LIMIT |-> EXPANSION_LIMIT,
                 SELECTION_INTERLEAVING |-> SELECTION_INTERLEAVING,
                 pruning |-> "auto"]})
Standby == UNCHANGED <<prob, params, nodes, sv, cpu, pc, loc, err, result, is_opt, hist>>

(***************************************************************************)
(* infeasible.py at unit level: the six comparisons on each ordered pair   *)
(* of three operands, floats or Infeasible objects.                        *)
(***************************************************************************)
\* floats, float("inf") and its negative included
Floats == {Real(r) : r \in {-INF, 0, INF} \cup 1..MaxVal}
\* Infeasible objects; Infeasible() has violation float("inf")
Infeasibles == {Infeasible(v) : v \in 0..MaxVal \cup {INF}}
Operands == Floats \cup Infeasibles

\* the six comparison expressions of Python on a and b
Comparisons(a, b) ==
    [lt |-> PyLt(a, b), le |-> PyLe(a, b), gt |-> PyGt(a, b),
     ge |-> PyGe(a, b), eq |-> PyEq(a, b), ne |-> PyNe(a, b)]

InitInfeasible ==
    /\ InitUnit
    /\ arg \in [1..3 -> Operands]
    /\ ret = NoCall

Compare ==
    /\ ret = NoCall
    /\ ret' = [p \in (1..3) \X (1..3) |-> Comparisons(arg[p[1]], arg[p[2]])]
    /\ UNCHANGED arg
    /\ Standby

NextInfeasible == Compare
SpecInfeasible == InitInfeasible /\ [][NextInfeasible]_vars

(***************************************************************************)
(* solution.py at unit level: update() is called on a fresh                *)
(* SolutionTracker, held in arg, with new Solution objects of any value;   *)
(* ret holds the Solution of the last call.                                *)
(***************************************************************************)
\* the values of the solutions: finite floats and Infeasible objects
SolutionValues == {Real(r) : r \in 0..MaxVal} \cup Infeasibles

InitTracker ==
    /\ InitUnit
    /\ arg = NewTracker
    /\ ret = NoCall

Update ==
    /\ arg.count < MaxUpdates
    /\ \E v \in SolutionValues :
          LET sol == Solution(<<arg.count + 1>>, v)
          IN  /\ arg' = TrackerUpdate(arg, sol)
              /\ ret' = sol
    /\ Standby

NextTracker == Update
SpecTracker == InitTracker /\ [][NextTracker]_vars

(***************************************************************************)
(* clock.py at unit level: start(), stop() and reset() are called in any   *)
(* order on a Clock, held in arg, while time.clock() moves on; ret holds   *)
(* the last call, the clock before it, the exception it raised, and the    *)
(* numbers of start() calls and of stop() calls on an active clock since   *)
(* the clock was last reset.                                               *)
(***************************************************************************)
InitClock ==
    /\ InitUnit
    /\ arg = NewClock
    /\ ret = [call |-> "new", force |-> FALSE, before |-> NewClock, raised |-> OK,
              starts |-> 0, stops |-> 0]

CallClockStart ==
    /\ ret.starts < MaxStarts
    /\ arg' = ClockStart(arg)
    /\ ret' = [ret EXCEPT !.call = "start", !.force = FALSE, !.before = arg,
                          !.raised = OK, !.starts = @ + 1]
    /\ Standby

CallClockStop ==
    /\ arg' = ClockStop(arg)
    /\ ret' = [ret EXCEPT !.call = "stop", !.force = FALSE, !.before = arg,
                          !.raised = OK,
                          !.stops = IF arg.tracks > 0 THEN @ + 1 ELSE @]
    /\ Standby

CallClockReset ==
    /\ \E force \in BOOLEAN :
          LET r == ClockReset(arg, force)
          IN  /\ arg' = r.c
              /\ ret' = [call |-> "reset", force |-> force, before |-> arg,
                         raised |-> r.raised,
                         starts |-> IF r.raised = OK THEN 0 ELSE ret.starts,
                         stops |-> IF r.raised = OK THEN 0 ELSE ret.stops]
    /\ Standby

ClockTick ==
    /\ arg.now < MaxTime
    /\ arg' = [arg EXCEPT !.now = @ + 1]
    /\ ret' = [ret EXCEPT !.call = "tick", !.force = FALSE, !.before = arg, !.raised = OK]
    /\ Standby

NextClock == CallClockStart \/ CallClockStop \/ CallClockReset \/ ClockTick
SpecClock == InitClock /\ [][NextClock]_vars

\* refresh(sols) is called on the tracker, once between two updates, with a
\* list of at most two Solution objects: a new one, or the extrema the
\* tracker holds; ret holds the list, the tracker before the call and the
\* boolean returned
CallTrackerRefresh ==
    /\ ret = NoCall \/ "sols" \notin DOMAIN ret
    /\ LET fresh == {Solution(<<MaxUpdates + 1>>, v) : v \in SolutionValues}
           pool  == fresh \cup {arg.best, arg.worst}
       IN  \E sols \in {<<>>} \cup {<<a>> : a \in pool}
                       \cup {<<a, b>> : a \in pool, b \in pool} :
              /\ arg' = TrackerRefresh(arg, sols).t
              /\ ret' = [sols |-> sols, before |-> arg,
                         changed |-> TrackerRefresh(arg, sols).changed]
    /\ Standby

NextTrackerRefresh == Update \/ CallTrackerRefresh
SpecTrackerRefresh == InitTracker /\ [][NextTrackerRefresh]_vars

(***************************************************************************)
(* expansion.py at unit level: start() and next() are called in any order  *)
(* on the Expansion of a state of the problem, held in arg; ret holds the  *)
(* outcome of the last call.                                               *)
(***************************************************************************)
InitExpansion ==
    /\ InitSolver({Problem(kids, [l \in Leaves(kids) |-> Real(1)],
                           SlackAt(<<0, 0, 0>>), TRUE, TRUE) :
                       kids \in {ShapeFlat, ShapeWide, ShapeSkew, ShapeFull}},
                  {[EXPANSION_LIMIT |-> EXPANSION_LIMIT,
                    SELECTION_INTERLEAVING |-> SELECTION_INTERLEAVING,
                    pruning |-> "auto"]})
    /\ arg \in {NewExpansion(s) : s \in DOMAIN prob.kids}
    /\ ret = NoCall

Called(r) ==
    /\ arg' = r.e
    /\ ret' = r
    /\ Standby

CallStart == Called(start(arg))
CallNext == Called(next(arg))

NextExpansion == CallStart \/ CallNext
SpecExpansion == InitExpansion /\ [][NextExpansion]_vars

(***************************************************************************)
(* tree.py at unit level: add_child and remove_child are called with any   *)
(* receiver and argument among fresh nodes, one for each state of the      *)
(* problem; arg holds the nodes and ret the last call, the nodes as they   *)
(* were before it and the exception it raised.                             *)
(***************************************************************************)
InitTree ==
    /\ InitUnit
    /\ arg = [n \in DOMAIN prob.kids |-> NewNode(n, n, UNDEFINED)]
    /\ ret = NoCall

TreeCalled(call, self, node, w) ==
    /\ arg' = w.nodes
    /\ ret' = [call |-> call, self |-> self, node |-> node, before |-> arg, raised |-> w.err]
    /\ Standby

CallAddChild ==
    \E self \in {n \in DOMAIN arg : arg[n].depth < MaxDepth}, node \in DOMAIN arg :
        TreeCalled("add_child", self, node,
                   add_child([nodes |-> arg, sv |-> sv, err |-> OK, h |-> hist], self, node))

CallRemoveChild ==
    \E self \in DOMAIN arg, node \in DOMAIN arg :
        TreeCalled("remove_child", self, node,
                   remove_child([nodes |-> arg, sv |-> sv, err |-> OK, h |-> hist], self, node))

NextTree == CallAddChild \/ CallRemoveChild
SpecTree == InitTree /\ [][NextTree]_vars

(***************************************************************************)
(* stats.py at unit level: between two iterations of a run the caller      *)
(* leaves the solver alone and calls stats.refresh() twice on one node of  *)
(* its tree; ret holds the node, the number of calls, what the first and   *)
(* the last call returned and the stats before the last call.              *)
(***************************************************************************)
ProblemsRefresh ==
    {Problem(ShapeSkew, val, SlackAt(sl), TRUE, TRUE) :
        val \in [Leaves(ShapeSkew) -> Values], sl \in Slacks}

InitRefresh == InitWith(ProblemsRefresh, ParamSets)

CallRefresh ==
    /\ pc \in {"loop", "unit"}
    /\ \E n \in Reachable(nodes) :
          /\ pc = "unit" => (ret.calls < 2 /\ n = ret.node)
          /\ nodes' = [nodes EXCEPT ![n].stats = RefreshedStats(nodes, n)]
          /\ ret' = [node |-> n,
                     calls |-> IF pc = "unit" THEN ret.calls + 1 ELSE 1,
                     first |-> IF pc = "unit" THEN ret.first ELSE RefreshChanged(nodes, n),
                     changed |-> RefreshChanged(nodes, n),
                     before |-> nodes[n].stats]
    /\ pc' = "unit"
    /\ UNCHANGED <<prob, params, sv, cpu, loc, err, result, is_opt, hist, arg>>

NextRefresh == Next \/ CallRefresh
SpecRefresh == InitRefresh /\ [][NextRefresh]_vars

(***************************************************************************)
(* Properties of Solver.run() without limits.                              *)
(***************************************************************************)
\* run() is over: it returned or an exception left it
Done == pc \in {"returned", "raised"}
\* the values of the solutions of the terminal states of the problem
LeafValues == {prob.val[s] : s \in Leaves(prob.kids)}
\* the problem has a terminal state with a feasible solution
SomeFeasibleLeaf == \E v \in LeafValues : ~v.isInf
\* the least value of LeafValues
MinLeafValue ==
    CHOOSE v \in LeafValues : \A u \in LeafValues : ~PyLt(u, v)

\* C1: on a problem with a feasible terminal state, run() without limits
\* returns a solution marked optimal, whose value is the least value of a
\* terminal state, and leaves the root exhausted
C1_RunReturnsOptimum ==
    (Done /\ SomeFeasibleLeaf) =>
        /\ pc = "returned"
        /\ result.id \in is_opt
        /\ result.value = MinLeafValue
        /\ is_exhausted(nodes, ROOT)

C3_ReturnsBestRecorded ==
    pc = "returned" =>
        /\ (result = NO_SOLUTION <=> sv.overall.count = 0)
        /\ (sv.overall.count > 0 =>
               /\ result = sv.overall.best
               /\ result \in hist.reached
               /\ \A s \in hist.reached : ~PyLt(s.value, result.value))

\* C4: with pruning on and a feasible best solution of value v, after every
\* iteration every node of the tree below the root has a bound less than v
C4_PrunedBelowBest ==
    (pc = "loop" /\ err = OK /\ sv.pruning /\ sv.feas.count > 0) =>
        \A n \in Reachable(nodes) \ {ROOT} :
            Real(prob.bnd[n]).x < sv.overall.best.value.x

\* C5: no step replaces the solver's overall best by one of greater value
C5_BestNeverWorse ==
    [][~PyGt(sv'.overall.best.value, sv.overall.best.value)]_vars
C5_Witness ==
    /\ sv.overall.count >= 2
    /\ sv.overall.best # sv.overall.worst
    /\ hist.deleted
    /\ PyGt(nodes[ROOT].stats.overall.best.value, sv.overall.best.value)

\* C6: every delete() so far left the subtree of its node out of the tree
\* and every ancestor still in the tree with the extrema a refresh of it
\* would compute
C6_DeleteCutsAndRefreshes ==
    /\ hist.del_cut
    /\ hist.del_fresh

\* C7: every delete() that reached the root left it without children and
\* with its six extrema at the sentinels, and so is the root when run()
\* returns with the tree exhausted
C7_RootReset ==
    /\ hist.root_clean
    /\ (pc = "returned" /\ is_exhausted(nodes, ROOT)) =>
           /\ Len(nodes[ROOT].children) = 0
           /\ AllSentinels(nodes[ROOT].stats)
C7_Witness ==
    /\ pc = "returned"
    /\ hist.root_del
    /\ is_exhausted(nodes, ROOT)
    /\ sv.overall.count >= 2

\* C8: after every iteration no node of the tree other than the root is
\* exhausted, and no delete() left an exhausted parent behind
C8_NoExhaustedInside ==
    /\ pc = "loop" => \A n \in Reachable(nodes) \ {ROOT} : ~is_exhausted(nodes, n)
    /\ err # "AssertionError: not parent.is_exhausted"
C8_Witness ==
    /\ pc = "loop"
    /\ hist.cascade
    /\ Cardinality(Reachable(nodes)) > 1

\* the chain of parents of n, up to the root
RECURSIVE ParentChain(_, _)
ParentChain(h, n) ==
    IF h[n].parent = NONE THEN <<>>
    ELSE <<h[n].parent>> \o ParentChain(h, h[n].parent)

\* C9: for every node of the tree, depth is the length of ancestors, whose
\* first element is the parent and which is the chain of parents up to the
\* root
C9_AncestorsAreParentChain ==
    \A n \in Reachable(nodes) :
        /\ nodes[n].depth = Len(nodes[n].ancestors)
        /\ (n # ROOT => nodes[n].ancestors[1] = nodes[n].parent)
        /\ nodes[n].ancestors = ParentChain(nodes, n)
        /\ (n # ROOT => nodes[n].ancestors[Len(nodes[n].ancestors)] = ROOT)
C9_Witness ==
    /\ hist.deleted
    /\ \E n \in Reachable(nodes) : nodes[n].depth = 2

\* C10: every node of the tree other than the root is exactly once among
\* the children of its parent, the root has no parent, and the root field
\* of every node of the tree is the root
C10_ChildrenAndRoot ==
    /\ nodes[ROOT].parent = NONE
    /\ \A n \in Reachable(nodes) :
        /\ nodes[n].root = ROOT
        /\ (n # ROOT =>
               /\ nodes[n].parent \in Reachable(nodes)
               /\ Cardinality({i \in 1..Len(nodes[nodes[n].parent].children) :
                                  nodes[nodes[n].parent].children[i] = n}) = 1)
C10_Witness ==
    /\ hist.deleted
    /\ Len(nodes[ROOT].children) = 2
    /\ \E n \in Reachable(nodes) : Len(nodes[n].ancestors) = 2

(***************************************************************************)
(* Properties of the statistics of the nodes.                              *)
(***************************************************************************)
\* the three counts of a Stats or of the solver's trackers add up
CountsAddUp(st) == st.overall.count = st.feas.count + st.infeas.count

\* C11: in every node, and in the solver, the count of the overall tracker
\* is the sum of the counts of the feas and infeas trackers
C11_CountsAddUp ==
    /\ \A n \in DOMAIN nodes : CountsAddUp(nodes[n].stats)
    /\ CountsAddUp(sv)
C11_Witness ==
    /\ hist.deleted
    /\ \E n \in Reachable(nodes) \ {ROOT} :
           /\ nodes[n].stats.feas.count > 0
           /\ nodes[n].stats.infeas.count > 0
    /\ sv.feas.count > 0
    /\ sv.infeas.count > 0

\* C12: for every node of the tree that originated simulations, the overall
\* best of each of its ancestors has a value less than or equal to that of
\* every solution the node backpropagated
C12_AncestorBestBelowSols ==
    \A o \in Reachable(nodes) :
        \A i \in 1..Len(nodes[o].stats.sols) :
            \A j \in 1..Len(nodes[o].ancestors) :
                PyLe(nodes[nodes[o].ancestors[j]].stats.overall.best.value,
                     nodes[o].stats.sols[i].value)
C12_Witness ==
    /\ hist.deleted
    /\ \E o \in Reachable(nodes) \ {ROOT} :
           /\ Len(nodes[o].stats.sols) > 0
           /\ PyLt(nodes[ROOT].stats.overall.best.value, nodes[o].stats.sols[1].value)
           /\ nodes[ROOT].stats.overall.best.id # INIT_BEST.id

\* C13: with a state class that does not override bound() and pruning
\* auto-detected, no exception leaves run()
C13_RunsWithoutBound ==
    (~prob.hasBound /\ params.pruning = "auto") => (~sv.pruning /\ err = OK)

\* C14: the solver loop never called delete() on a terminal child that the
\* backpropagation of its solution had already taken out of the tree
C14_DeleteOnlyAttached == ~hist.del_detached

\* C15: run() without limits is eventually over with the root exhausted
C15_TerminatesExhausted == <>(Done /\ is_exhausted(nodes, ROOT))

(***************************************************************************)
(* Properties of the ordering of infeasible.py.                            *)
(***************************************************************************)
\* C16: an Infeasible is greater than every float, in both operand orders;
\* two Infeasible objects compare as their violations; and an Infeasible
\* equals only an Infeasible of equal violation
C16_InfeasibleAboveReals ==
    ret # NoCall =>
        \A i \in 1..3, j \in 1..3 :
            /\ (arg[i].isInf /\ ~arg[j].isInf) =>
                   /\ ret[<<i, j>>].gt /\ ret[<<j, i>>].lt
                   /\ ~ret[<<i, j>>].le /\ ~ret[<<j, i>>].ge
                   /\ ~ret[<<i, j>>].eq /\ ~ret[<<j, i>>].eq
            /\ (arg[i].isInf /\ arg[j].isInf) =>
                   /\ ret[<<i, j>>].lt <=> arg[i].x < arg[j].x
                   /\ ret[<<i, j>>].gt <=> arg[i].x > arg[j].x
                   /\ ret[<<i, j>>].le <=> arg[i].x <= arg[j].x
                   /\ ret[<<i, j>>].ge <=> arg[i].x >= arg[j].x
                   /\ ret[<<i, j>>].eq <=> arg[i].x = arg[j].x
C16_Witness ==
    /\ ret # NoCall
    /\ arg[1] = Infeasible(0)
    /\ arg[2] = Real(INF)
    /\ arg[3] = Infeasible(INF)

\* C17: the six comparisons are those of one total order: of a < b, a == b
\* and a > b exactly one holds; <= is < or ==; != is not ==; >= is > or ==;
\* == is symmetric and transitive; < is transitive
C17_TotalOrder ==
    ret # NoCall =>
        /\ \A i \in 1..3, j \in 1..3 :
              LET r == ret[<<i, j>>]
              IN  /\ Cardinality({k \in {"lt", "eq", "gt"} : r[k]}) = 1
                  /\ r.le <=> (r.lt \/ r.eq)
                  /\ r.ge <=> (r.gt \/ r.eq)
                  /\ r.ne <=> ~r.eq
                  /\ r.eq <=> ret[<<j, i>>].eq
                  /\ r.lt <=> ret[<<j, i>>].gt
        /\ (ret[<<1, 2>>].eq /\ ret[<<2, 3>>].eq) => ret[<<1, 3>>].eq
        /\ (ret[<<1, 2>>].lt /\ ret[<<2, 3>>].lt) => ret[<<1, 3>>].lt
C17_Witness ==
    /\ ret # NoCall
    /\ arg[1] = Real(MaxVal)
    /\ arg[2] = Infeasible(1)
    /\ arg[3] = Infeasible(INF)
    /\ ret[<<1, 2>>].lt /\ ret[<<2, 3>>].lt /\ ret[<<1, 3>>].lt

(***************************************************************************)
(* Properties of SolutionTracker.                                          *)
(***************************************************************************)
\* C18: after the first update of a fresh tracker, best and worst are both
\* the solution of that update
C18_FirstUpdateReplacesSentinels ==
    (ret # NoCall /\ arg.count = 1) => (arg.best = ret /\ arg.worst = ret)

(***************************************************************************)
(* Properties of Expansion.                                                *)
(***************************************************************************)
\* C19: a start() on a started expansion, a next() on an expansion not yet
\* started and a next() on a finished one each raise ValueError and leave
\* the four fields of the expansion as they were
C19_UsageErrorsKeepState ==
    ret # NoCall =>
        /\ ((ret.call = "start" /\ ret.before.is_started)
             \/ (ret.call = "next" /\ ~ret.before.is_started)
             \/ (ret.call = "next" /\ ret.before.is_finished))
               => /\ ret.raised \in {"ValueError: multiple attempts to start node expansion",
                                     "ValueError: node expansion is not yet started",
                                     "ValueError: node expansion is already finished"}
                  /\ arg = ret.before
        /\ ret.raised # OK => arg = ret.before
C19_Witness ==
    /\ ret # NoCall
    /\ ret.call = "next"
    /\ ret.before.is_finished
    /\ ret.raised = "ValueError: node expansion is already finished"
    /\ actions(arg.state) # <<>>

\* the pairs one expand() without limit gives for the state s: one for each
\* action of actions(), in that order
FullExpansion(s) == [i \in 1..Len(actions(s)) |-> <<actions(s)[i], apply(s, actions(s)[i])>>]

\* C20: with pruning off, the pairs the expand() calls of a node have given
\* so far are the first ones of FullExpansion, each once and in order, and
\* all of them once the expansion is finished
C20_ExpandOnceInOrder ==
    ~sv.pruning =>
        \A n \in DOMAIN hist.made :
            /\ Len(hist.made[n]) <= Len(FullExpansion(n))
            /\ hist.made[n] = SubSeq(FullExpansion(n), 1, Len(hist.made[n]))
            /\ (n \in DOMAIN nodes /\ nodes[n].expansion.is_finished)
                   => hist.made[n] = FullExpansion(n)
C20_Witness ==
    /\ ~sv.pruning
    /\ params.EXPANSION_LIMIT = 1
    /\ sv.iters >= 3
    /\ \E n \in DOMAIN nodes \ {ROOT} :
           /\ nodes[n].expansion.is_finished
           /\ Len(hist.made[n]) = 2

(***************************************************************************)
(* Properties of NaryTreeNode.                                             *)
(***************************************************************************)
\* C21: add_child of a node that has a parent or children, and remove_child
\* of a node whose parent is not the receiver, raise ValueError and leave
\* the fields of every node as they were
C21_TreeUsageErrors ==
    ret # NoCall =>
        /\ (ret.call = "add_child"
               /\ (ret.before[ret.node].parent # NONE
                     \/ Len(ret.before[ret.node].children) > 0))
             => /\ ret.raised = "ValueError: argument node cannot have ancestors or children"
                /\ arg = ret.before
        /\ (ret.call = "remove_child" /\ ret.before[ret.node].parent # ret.self)
             => /\ ret.raised = "ValueError: argument node has a different parent"
                /\ arg = ret.before
C21_Witness ==
    /\ ret # NoCall
    /\ ret.call = "add_child"
    /\ ret.raised # OK
    /\ ret.before[ret.node].parent \notin {NONE, ret.self}
    /\ Len(ret.before[ret.node].children) = 0

(***************************************************************************)
(* Properties of TreeNode.bound.                                           *)
(***************************************************************************)
\* C22: for every node state.bound() was evaluated at most once, the cache
\* holds the value of that evaluation, and no bound() call found the state
\* released with the cache empty
C22_BoundEvaluatedOnce ==
    /\ \A n \in DOMAIN nodes :
          /\ nodes[n].bound_evals <= 1
          /\ nodes[n].bound_evals = 1 => nodes[n].cached_bound = prob.bnd[n]
          /\ nodes[n].bound_evals = 0 => nodes[n].cached_bound = NO_BOUND
          /\ nodes[n].state = NONE => nodes[n].cached_bound # NO_BOUND
    /\ err # "AttributeError: 'NoneType' object has no attribute 'bound'"
C22_Witness ==
    /\ hist.bound_hit
    /\ nodes[ROOT].state = NONE
    /\ nodes[ROOT].bound_evals = 1
    /\ \E n \in Reachable(nodes) \ {ROOT} : nodes[n].bound_evals = 1

(***************************************************************************)
(* Properties of Stats.refresh.                                            *)
(***************************************************************************)
\* C23: the second of two refresh() calls in a row on a node returns False
\* and leaves the stats of the node, its six extrema, as the first left them
C23_RefreshIdempotent ==
    (ret # NoCall /\ ret.calls = 2) =>
        /\ ~ret.changed
        /\ nodes[ret.node].stats = ret.before
C23_Witness ==
    /\ ret # NoCall
    /\ ret.calls = 2
    /\ ret.first
    /\ ~AllSentinels(nodes[ret.node].stats)

(***************************************************************************)
(* Properties of the solver's trackers and of pruning.                     *)
(***************************************************************************)
\* C24: between two iterations the three counts of the solver's trackers
\* equal the counts of the trackers of the root
C24_SolverCountsAreRootCounts ==
    pc = "loop" =>
        \A cat \in {"feas", "infeas", "overall"} :
            sv[cat].count = nodes[ROOT].stats[cat].count
C24_Witness ==
    /\ pc = "loop"
    /\ sv.feas.count > 0
    /\ sv.infeas.count > 0
    /\ hist.deleted

\* C25: prune() is called on the root by a solver that prunes, when the
\* solver's best overall solution has just become a feasible one, with the
\* value of that solution, a real number, for cutoff, and after the origin of
\* the solution and all its ancestors up to the root have recorded it
C25_PruneAfterNewFeasibleBest == hist.prune_ok
C25_Witness ==
    /\ hist.pruned
    /\ hist.deleted
    /\ sv.infeas.count > 0
    /\ err = OK

(***************************************************************************)
(* The order of the steps of one iteration.  hist.steps is the sequence of *)
(* the steps taken since the iteration under way began.                    *)
(***************************************************************************)
\* the steps follow one another as the pairs of the relation allow, from a
\* select on
InOrder(steps, follows) ==
    /\ Len(steps) > 0 => steps[1] = "select"
    /\ \A i \in 1..(Len(steps) - 1) : <<steps[i], steps[i + 1]>> \in follows

\* select, expand, then per child: terminal-check or simulate, backpropagate
StepsToBackpropagate ==
    {<<"select", "expand">>, <<"expand", "terminal-check">>,
     <<"terminal-check", "simulate">>, <<"terminal-check", "backpropagate">>,
     <<"simulate", "backpropagate">>, <<"backpropagate", "expand">>}

IterationsOfRun == sv.iters - hist.iters0

\* C27: a call run(iter_limit=k) completes at most k iterations; once it is
\* over it has completed exactly k, unless the root is exhausted, the time
\* limit is reached or the run was cancelled; iters never decreases
C27_IterLimitIsRelative ==
    [][/\ (hist.k' # INF => IterationsOfRun' <= hist.k')
       /\ (pc' \in {"returned", "raised"} /\ hist.k' # INF /\ IterationsOfRun' # hist.k')
              => \/ is_exhausted(nodes', ROOT)
                 \/ elapsed(cpu') >= loc.time_limit'
                 \/ hist.cancelled'
       /\ sv.iters' >= sv.iters]_vars

\* C28: a run() that was cancelled has returned: its clock is stopped, no
\* error is signalled, and the result is None if no solution was found and
\* else a least-valued one of the solutions found so far
C28_CancelIsOrderly ==
    hist.cancelled =>
        /\ pc = "returned"
        /\ err = OK
        /\ cpu.tracks = 0
        /\ (result = NO_SOLUTION <=> hist.reached = {})
        /\ (hist.reached # {} =>
               /\ result \in hist.reached
               /\ \A s \in hist.reached : ~PyLt(s.value, result.value))

(***************************************************************************)
(* Properties of select() and expand().                                    *)
(***************************************************************************)
\* C29: when run() calls root.select(), the root not being exhausted, the
\* call raises nothing and returns a node of the tree of the root whose
\* expansion is not finished
C29_SelectCompletes ==
    (pc = "loop" /\ LoopCondition) =>
        \A r \in select(nodes, ROOT) :
            /\ r.err = OK
            /\ r.node \in Reachable(nodes)
            /\ ~nodes[r.node].expansion.is_finished

\* C30: a call of expand() creates at most EXPANSION_LIMIT children, the
\* dropped ones counted, and so links at most that many; a child is dropped
\* when the solver prunes, the cutoff is a real number and the bound of the
\* child is not less than it, is linked otherwise, and a dropped child is
\* never in the tree; the child the generator yields has the expanded node
\* for parent
C30_ExpandWithinLimit ==
    /\ hist.tried <= params.EXPANSION_LIMIT
    /\ hist.linked <= hist.tried
    /\ hist.link_ok
    /\ hist.drop_ok
    /\ \A d \in hist.dropped :
           d \in DOMAIN nodes =>
               /\ nodes[d].parent = NONE
               /\ \A n \in DOMAIN nodes :
                      \A i \in 1..Len(nodes[n].children) : nodes[n].children[i] # d
    /\ pc = "body" =>
           /\ nodes[loc.child].parent = loc.node
           /\ \E i \in 1..Len(nodes[loc.node].children) :
                  nodes[loc.node].children[i] = loc.child
C30_Witness ==
    /\ pc = "body"
    /\ hist.tried = 2
    /\ hist.linked = 1
    /\ hist.dropped # {}
    /\ sv.pruning

(***************************************************************************)
(* Properties of backpropagate() and of refresh().                         *)
(***************************************************************************)
\* C31: every backpropagate(sol) from a node raised the overall count and
\* the count of the category of sol by one at the node and at each of its
\* ancestors, bottom-up, appended sol to the solutions of the node alone and,
\* when it triggered no prune, left the stats of all other nodes alone
C31_BackpropagateFrame == hist.bp_frame
C31_Witness ==
    /\ hist.bp_plain
    /\ hist.pruned
    /\ sv.feas.count > 0
    /\ sv.infeas.count > 0
    /\ \E n \in Reachable(nodes) : Len(nodes[n].ancestors) = 2
                                     /\ nodes[n].stats.overall.count > 0

\* C32: refresh(sols) on a tracker keeps its count; best and worst become
\* the sentinels if sols is empty, and else a least-valued and a
\* greatest-valued solution of sols; True is returned exactly when best or
\* worst is another object than before
C32_RefreshFromArgument ==
    LET Holds(sols) ==
            /\ arg.count = ret.before.count
            /\ (sols = {} => (arg.best = INIT_BEST /\ arg.worst = INIT_WORST))
            /\ (sols # {} =>
                   /\ arg.best \in sols
                   /\ arg.worst \in sols
                   /\ \A s \in sols : /\ ~PyLt(s.value, arg.best.value)
                                      /\ ~PyGt(s.value, arg.worst.value))
            /\ (ret.changed <=> (arg.best.id # ret.before.best.id
                                 \/ arg.worst.id # ret.before.worst.id))
    IN  IF ret # NoCall /\ "sols" \in DOMAIN ret
        THEN Holds({ret.sols[i] : i \in 1..Len(ret.sols)})
        ELSE TRUE

(***************************************************************************)
(* Properties of the Clock.                                                *)
(***************************************************************************)
\* C33: the track counter of a clock is never negative and is the number of
\* start() calls less the number of stop() calls made on the active clock,
\* so the clock is active exactly when the former outnumber the latter; the
\* accumulated time changes only in the stop() that ends the outermost
\* track (and in a reset); stop() on an inactive clock changes nothing;
\* reset() without force on an active clock raises and changes nothing
C33_ClockReentrant ==
    /\ arg.tracks >= 0
    /\ arg.tracks = ret.starts - ret.stops
    /\ (arg.tracks > 0 <=> ret.starts > ret.stops)
    /\ (arg.elapsed # ret.before.elapsed =>
           \/ ret.call = "stop" /\ ret.before.tracks = 1
           \/ ret.call = "reset" /\ ret.raised = OK)
    /\ ((ret.call = "stop" /\ ret.before.tracks > 1) =>
           (arg.tracks = ret.before.tracks - 1 /\ arg.start = ret.before.start))
    /\ ((ret.call = "stop" /\ ret.before.tracks = 1) =>
           arg.elapsed = ret.before.elapsed + (ret.before.now - ret.before.start))
    /\ ((ret.call = "stop" /\ ret.before.tracks = 0) => arg = ret.before)
    /\ ((ret.call = "reset" /\ ~ret.force /\ ret.before.tracks > 0) =>
           (ret.raised # OK /\ arg = ret.before))
    /\ ((ret.call = "reset" /\ (ret.force \/ ret.before.tracks = 0)) =>
           (ret.raised = OK /\ arg.tracks = 0 /\ arg.elapsed = 0))
C33_Witness ==
    /\ ret.call = "stop"
    /\ ret.before.tracks = 2
    /\ ret.before.now > ret.before.start
    /\ ret.before.elapsed > 0

(***************************************************************************)
(* Properties of prune(), delete() and the selection scores.               *)
(***************************************************************************)
\* C34: every root.prune(cutoff) so far has returned without an exception,
\* with a tree in which every node, the root included, has a bound less than
\* the cutoff, and which is not larger than before the call
C34_PruneLeavesBelowCutoff == hist.prune_done

\* the nodes whose opt_exploitation_score a root.select() may evaluate: the
\* nodes other than the root all of whose ancestors select() descends from
ScoredInSelect(h) ==
    LET Descends(a) == /\ h[a].expansion.is_started
                       /\ h[a].expansion.is_finished \/ params.SELECTION_INTERLEAVING
    IN  {n \in Reachable(h) \ {ROOT} :
            \A i \in 1..Len(h[n].ancestors) : Descends(h[n].ancestors[i])}

\* the exploitation term of node n is well defined: the extrema of its
\* parent in the category of the node's best solution are solutions that
\* were backpropagated, with z_best <= z_node <= z_worst
ExploitWellDefined(h, n) ==
    LET best_sol == h[n].stats.overall.best
        cat      == IF is_feas(best_sol) THEN "feas" ELSE "infeas"
        tracker  == h[h[n].parent].stats[cat]
    IN  /\ opt_exploitation_score(h, n) = OK
        /\ tracker.best \in hist.reached
        /\ tracker.worst \in hist.reached
        /\ PyLe(tracker.best.value, best_sol.value)
        /\ PyLe(best_sol.value, tracker.worst.value)

\* C35: whenever root.select() is about to run, the exploitation term of
\* every node it may score is well defined and its assertion holds
C35_ExploitationDefined ==
    (pc = "loop" /\ LoopCondition) =>
        \A n \in ScoredInSelect(nodes) : ExploitWellDefined(nodes, n)

\* the extrema of tracker t of category cat are sound: either both sentinels
\* in their own roles, or backpropagated solutions of the category with
\* best.value <= worst.value
ExtremaSound(t, cat) ==
    LET Fits(sol) == /\ sol \in hist.reached
                     /\ cat = "feas" => is_feas(sol)
                     /\ cat = "infeas" => ~is_feas(sol)
    IN  \/ t.best = INIT_BEST /\ t.worst = INIT_WORST
        \/ Fits(t.best) /\ Fits(t.worst) /\ PyLe(t.best.value, t.worst.value)

\* C36: the extrema of the three trackers of every node of the tree are
\* sound, whatever updates, refreshes and deletions were made
C36_ExtremaSound ==
    \A n \in Reachable(nodes) : \A cat \in {"feas", "infeas", "overall"} :
        ExtremaSound(nodes[n].stats[cat], cat)

\* the assertions of TreeNode.delete
DeleteAssertions ==
    {"AssertionError: parent.children[0] is node",
     "AssertionError: node is self.root and len(node.children) < 2",
     "AssertionError: root stats are not the initial sentinels",
     "AssertionError: not parent.is_exhausted"}

\* C37: no delete() made during run(), from the solver loop, from prune or
\* from expand, has failed one of its assertions
C37_DeleteAssertionsHold == err \notin DeleteAssertions

\* the overall counts in the tree h are ordered: every node other than the
\* root has at least one solution and no more than its parent
CountsOrdered(h) ==
    \A n \in Reachable(h) \ {ROOT} :
        /\ h[n].stats.overall.count >= 1
        /\ h[h[n].parent].stats.overall.count >= h[n].stats.overall.count

\* no count of a node that stays in the tree decreases in the step
CountsKept ==
    \A n \in Reachable(nodes) \cap Reachable(nodes') :
        \A cat \in {"feas", "infeas", "overall"} :
            nodes'[n].stats[cat].count >= nodes[n].stats[cat].count

\* C38: whenever root.select() is about to run the overall counts are
\* ordered, so that the exploration term of every node is defined, and no
\* step decreases a count
C38_CountsOrdered ==
    /\ []((pc = "loop" /\ LoopCondition) =>
            /\ CountsOrdered(nodes)
            /\ \A r \in select(nodes, ROOT) :
                   r.err \notin {"ValueError: math domain error", "ZeroDivisionError"})
    /\ [][CountsKept]_vars

\* C39: in the solver's trackers, once a feasible solution was counted the
\* best overall solution is feasible and is the best feasible one, and
\* while only infeasible solutions were counted it is the best infeasible one
C39_OverallBestFollows ==
    /\ sv.feas.count > 0 =>
           /\ is_feas(sv.overall.best)
           /\ sv.overall.best.id = sv.feas.best.id
    /\ (sv.feas.count = 0 /\ sv.infeas.count > 0) =>
           sv.overall.best.id = sv.infeas.best.id
C39_Witness ==
    /\ sv.feas.count >= 2
    /\ sv.infeas.count > 0
    /\ sv.infeas.best.id # INIT_BEST.id
    /\ sv.feas.best.id # sv.feas.worst.id
    /\ sv.overall.best.id = sv.feas.best.id

\* C40: run() leaves the clock as it found it.  The clock of the solver is
\* inactive before run() is called; it is active, at one level, while the
\* loop runs, and inactive again once run() has returned or was left by an
\* exception, and then it has no start time
C40_ClockBalanced ==
    /\ pc \in {"init", "returned", "raised"} => (cpu.tracks = 0 /\ cpu.start = NO_TIME)
    /\ pc \in {"loop", "expand", "body"} => cpu.tracks = 1
C40_Witness ==
    /\ pc = "raised"
    /\ err # OK
    /\ hist.runs = 2
    /\ cpu.tracks = 0
    /\ cpu.elapsed > 0
====
